---- MODULE Spec2Model ----
(***************************************************************************)
(* Payroll calculator (script.js): number parsing and formatting, the      *)
(* federal tax and expense engines, and the persistence layer (debounced   *)
(* save, load with cookie fallback, restore of custom rows, clear).        *)
(*                                                                         *)
(* Representation.                                                         *)
(*   - A text (an input's value, a label) is a sequence of one-character   *)
(*     strings: "1,234.50" is <<"1", ",", "2", "3", "4", ".", "5", "0">>.  *)
(*   - A number is a double, a record [kind, neg, m, e]: a finite one is   *)
(*     m * 2^e with the sign neg, the significand m being a natural number *)
(*     below 2^53 written in base 16384 = 2^14, least significant limb     *)
(*     first: 0.1 is <<6554, 9830, 6553, 1638>> * 2^-56.  A text is read   *)
(*     as the double nearest to it, and a sum, difference, product or      *)
(*     quotient is the double nearest to the exact one, ties to even.      *)
(*     What is displayed is rounded from the shortest decimal that names   *)
(*     the double, the one JavaScript prints.                              *)
(*                                                                         *)
(* Specifications.                                                         *)
(*   Spec, FairSpec   the page from its first visit on: page start, user   *)
(*                    events, the save timer, clear and reload.            *)
(*   SpecLoad         page start on stores of any content.                 *)
(*   SpecRoundTrip    saveState on a filled-in page, then page start on    *)
(*                    what it wrote.                                       *)
(*   SpecRestore      restoreCustomItems on a page that already has rows.  *)
(*   SpecExpenses     calculateExpenses over the travel checkboxes and     *)
(*                    stored travel values.                                *)
(*   SpecTax          calculateFederalTax around every bracket threshold.  *)
(*   SpecIncome       calculateIncome in both modes, below, at and above   *)
(*                    the Social Security wage base.                       *)
(* The amounts recalculate displays are functions of the fields; they are  *)
(* kept in state (federalTax, expenses, income) only by SpecTax,           *)
(* SpecExpenses and SpecIncome.                                            *)
(***************************************************************************)
EXTENDS Integers, Sequences, FiniteSets, TLC

----------------------------------------------------------------------------
(* Constants of script.js *)

CUSTOM_CONTAINERS ==
    << "housingExtras", "utilitiesExtras", "vehicleExtras",
       "publicTransportExtras", "rideShareExtras", "miscTravelExtras",
       "additionalExpenses" >>

Containers == { CUSTOM_CONTAINERS[i] : i \in 1..Len(CUSTOM_CONTAINERS) }

----------------------------------------------------------------------------
(* Natural numbers of any size: a sequence of limbs in base 10000, the
   least significant limb first and the most significant one not 0 (0 is
   the empty sequence).  Here and below, an operator F defined as
   CHOOSE res \in { FOf(a1) : a1 \in { a } } : TRUE  is FOf with its
   argument evaluated once and bound to a1. *)

Max(m, n) == IF m > n THEN m ELSE n

Min(m, n) == IF m < n THEN m ELSE n

\* a without its most significant limbs that are 0.
TrimOf(a) ==
    IF a = <<>> \/ a[Len(a)] # 0 THEN a
    ELSE SubSeq(a, 1, CHOOSE k \in 0..Len(a) :
                          /\ k = 0 \/ a[k] # 0
                          /\ \A j \in (k + 1)..Len(a) : a[j] = 0)

Trim(a) ==
    CHOOSE res \in { TrimOf(a1) : a1 \in { a } } : TRUE

Limb(a, i) == IF i >= 1 /\ i <= Len(a) THEN a[i] ELSE 0

Zeros(n) == [ i \in 1..n |-> 0 ]

\* a * 10000^n
Shift(a, n) == Trim(Zeros(n) \o a)

\* The limbs of an integer n >= 0.
NatOf(n) ==
    IF n = 0 THEN <<>>
    ELSE IF n < 10000 THEN << n >>
    ELSE IF n < 100000000 THEN << n % 10000, n \div 10000 >>
    ELSE << n % 10000, (n \div 10000) % 10000, n \div 100000000 >>

\* The carry into limb i of a + b in a base: the nearest limb below i whose
\* sum is not base - 1 has a sum of base or more.
AddCarry(a, b, i, base) ==
    IF i = 1 THEN FALSE
    ELSE IF Limb(a, i - 1) + Limb(b, i - 1) # base - 1
    THEN Limb(a, i - 1) + Limb(b, i - 1) >= base
    ELSE \E j \in 1..(i - 2) :
             /\ Limb(a, j) + Limb(b, j) >= base
             /\ \A m \in (j + 1)..(i - 1) : Limb(a, m) + Limb(b, m) = base - 1

AddOf(a, b, base) ==
    Trim([ i \in 1..(Max(Len(a), Len(b)) + 1) |->
             (Limb(a, i) + Limb(b, i) + (IF AddCarry(a, b, i, base) THEN 1 ELSE 0))
                 % base ])

\* a + b
NatAdd(a, b) ==
    CHOOSE res \in { AddOf(a1, b1, 10000) : a1 \in { a }, b1 \in { b } } : TRUE

\* The borrow from limb i of a - b: the nearest limb below i where a and b
\* differ has less in a.
SubBorrow(a, b, i) ==
    IF i = 1 THEN FALSE
    ELSE IF Limb(a, i - 1) # Limb(b, i - 1)
    THEN Limb(a, i - 1) < Limb(b, i - 1)
    ELSE \E j \in 1..(i - 2) :
             /\ Limb(a, j) < Limb(b, j)
             /\ \A m \in (j + 1)..(i - 1) : Limb(a, m) = Limb(b, m)

SubOf(a, b, base) ==
    Trim([ i \in 1..Len(a) |->
             (a[i] - Limb(b, i) - (IF SubBorrow(a, b, i) THEN 1 ELSE 0) + base)
                 % base ])

\* a - b, for a >= b
NatSub(a, b) ==
    CHOOSE res \in { SubOf(a1, b1, 10000) : a1 \in { a }, b1 \in { b } } : TRUE

\* -1 or 1 as the most significant limb in which a and b differ is less or
\* more in a.
CmpAt(a, b, k) == IF a[k] < b[k] THEN -1 ELSE 1

\* -1, 0 or 1 as a is less than, equal to or greater than b
NatCmpOf(a, b) ==
    IF Len(a) < Len(b) THEN -1
    ELSE IF Len(a) > Len(b) THEN 1
    ELSE IF a = b THEN 0
    ELSE CmpAt(a, b, CHOOSE k \in 1..Len(a) :
                         /\ a[k] # b[k]
                         /\ \A j \in (k + 1)..Len(a) : a[j] = b[j])

NatCmp(a, b) ==
    CHOOSE res \in { NatCmpOf(a1, b1) : a1 \in { a }, b1 \in { b } } : TRUE

\* a * k for an integer k in 0..10000: each limb times k is a low limb
\* here and a high limb one place up.
NatMulSmallOf(a, k) ==
    NatAdd([ i \in 1..Len(a) |-> (a[i] * k) % 10000 ],
           << 0 >> \o [ i \in 1..Len(a) |-> (a[i] * k) \div 10000 ])

NatMulSmall(a, k) ==
    CHOOSE res \in { NatMulSmallOf(a1, k1) : a1 \in { a }, k1 \in { k } } : TRUE

\* a * b, by halves of b
RECURSIVE NatMul(_, _)
NatMulOf(a, b) ==
    IF Len(b) = 0 THEN <<>>
    ELSE IF Len(b) = 1 THEN NatMulSmall(a, b[1])
    ELSE NatAdd(NatMul(a, SubSeq(b, 1, Len(b) \div 2)),
                Shift(NatMul(a, SubSeq(b, Len(b) \div 2 + 1, Len(b))),
                      Len(b) \div 2))

NatMul(a, b) ==
    CHOOSE res \in { NatMulOf(a1, b1) : a1 \in { a }, b1 \in { b } } : TRUE

\* The largest d in lo..hi with b * d <= a, given that b * lo <= a.
RECURSIVE QuotDigit(_, _, _, _)
QuotDigit(a, b, lo, hi) ==
    IF lo = hi THEN lo
    ELSE IF NatCmp(NatMulSmall(b, (lo + hi + 1) \div 2), a) <= 0
         THEN QuotDigit(a, b, (lo + hi + 1) \div 2, hi)
         ELSE QuotDigit(a, b, lo, (lo + hi + 1) \div 2 - 1)

DigitBetween(a, b, lo, hi) ==
    IF NatCmp(NatMulSmall(b, hi), a) <= 0 THEN hi ELSE QuotDigit(a, b, lo, hi - 1)

\* The limbs of a from the n-th up, as an integer: at most two limbs.
Top(a, n) == Limb(a, n + 1) * 10000 + Limb(a, n)

\* The integer part of a / b, for b # 0 and a < 10000 * b.  With t the
\* limbs of a from the place of the most significant limb of b up, it lies
\* between t divided by that limb plus one and t divided by that limb.
DigitOf(a, b) ==
    IF NatCmp(a, b) < 0 THEN 0
    ELSE DigitBetween(a, b, Max(1, Top(a, Len(b)) \div (b[Len(b)] + 1)),
                      Min(9999, Top(a, Len(b)) \div b[Len(b)]))

Digit(a, b) ==
    CHOOSE res \in { DigitOf(a1, b1) : a1 \in { a }, b1 \in { b } } : TRUE

\* Long division of a by b # 0 from limb i of a down, rem being what the
\* limbs above i have left: [q, r], the limbs of the quotient and the
\* remainder.
RECURSIVE DivFrom(_, _, _, _)
DivDigit(a, b, i, cur, d) ==
    CHOOSE res \in
        { [ q |-> rest.q \o << d >>, r |-> rest.r ] :
            rest \in { DivFrom(a, b, i - 1, NatSub(cur, NatMulSmall(b, d))) } } :
        TRUE

DivStep(a, b, i, cur) ==
    CHOOSE res \in { DivDigit(a, b, i, cur, d) : d \in { Digit(cur, b) } } : TRUE

DivFrom(a, b, i, rem) ==
    IF i = 0 THEN [ q |-> <<>>, r |-> rem ]
    ELSE CHOOSE res \in
             { DivStep(a, b, i, cur) : cur \in { Trim(<< a[i] >> \o rem) } } : TRUE

Trimmed(res) == [ q |-> Trim(res.q), r |-> res.r ]

\* [q, r] with a = q * b + r and r < b, for b # 0.  The limbs of a above
\* the first Len(a) - Len(b) + 1 are less than b.
NatDivModOf(a, b) ==
    IF Len(a) < Len(b) THEN [ q |-> <<>>, r |-> a ]
    ELSE Trimmed(DivFrom(a, b, Len(a) - Len(b) + 1,
                         SubSeq(a, Len(a) - Len(b) + 2, Len(a))))

NatDivMod(a, b) ==
    CHOOSE res \in { NatDivModOf(a1, b1) : a1 \in { a }, b1 \in { b } } : TRUE

\* 2^n, by squaring
RECURSIVE NatPow2(_)
Squared(h, odd) == IF odd THEN NatMulSmall(NatMul(h, h), 2) ELSE NatMul(h, h)

NatPow2(n) ==
    IF n <= 26 THEN NatOf(2 ^ n)
    ELSE CHOOSE p \in { Squared(h, n % 2 = 1) : h \in { NatPow2(n \div 2) } } : TRUE

----------------------------------------------------------------------------
(* Numbers.  A number is a double [kind, neg, m, e]: kind is "finite",
   "Infinity" (with its sign in neg) or "NaN", and a finite number is
   m * 2^e with the sign neg (kept for zero too: -0 and 0 are two values).
   The significand m is a natural number in base 16384 = 2^14, the least
   significant limb first and the most significant one not 0.  It has 53
   bits, 2^52 <= m < 2^53, and -1074 <= e <= 971; below 2^-1022 it is
   shorter and e is -1074; 0 is m = <<>> with e = 0.  A number read from a
   text is the double nearest to the text, and a sum, difference, product
   or quotient is the double nearest to the exact one, ties to even,
   Infinity past the largest double and 0 below half the smallest. *)

NaN == [ kind |-> "NaN", neg |-> FALSE, m |-> <<>>, e |-> 0 ]

Infinite(neg) == [ kind |-> "Infinity", neg |-> neg, m |-> <<>>, e |-> 0 ]

Double(neg, m, e) == [ kind |-> "finite", neg |-> neg, m |-> m, e |-> e ]

Zero == Double(FALSE, <<>>, 0)

IsZero(x) == x.kind = "finite" /\ x.m = <<>>

\* |x| against |y| for finite x and y: the exponents decide, and between
\* equal exponents the significands.
MagCmp(x, y) ==
    IF x.m = <<>> THEN (IF y.m = <<>> THEN 0 ELSE -1)
    ELSE IF y.m = <<>> THEN 1
    ELSE IF x.e # y.e THEN (IF x.e < y.e THEN -1 ELSE 1)
    ELSE NatCmp(x.m, y.m)

FiniteCmp(x, y) ==
    IF IsZero(x) /\ IsZero(y) THEN 0
    ELSE IF x.neg /\ ~y.neg THEN -1
    ELSE IF ~x.neg /\ y.neg THEN 1
    ELSE IF x.neg THEN 0 - MagCmp(x, y)
    ELSE MagCmp(x, y)

\* -1, 0 or 1 as x < y, x = y (0 and -0 are equal) or x > y, and 2 when
\* either is NaN
CmpOf(x, y) ==
    IF x.kind = "NaN" \/ y.kind = "NaN" THEN 2
    ELSE IF x.kind = "Infinity"
    THEN IF y.kind = "Infinity" /\ x.neg = y.neg THEN 0
         ELSE IF x.neg THEN -1 ELSE 1
    ELSE IF y.kind = "Infinity" THEN IF y.neg THEN 1 ELSE -1
    ELSE FiniteCmp(x, y)

Cmp(x, y) ==
    CHOOSE res \in { CmpOf(x1, y1) : x1 \in { x }, y1 \in { y } } : TRUE

\* x < y, x <= y and x === y: false when either is NaN
Less(x, y) == Cmp(x, y) = -1

LessEq(x, y) == Cmp(x, y) \in {-1, 0}

Same(x, y) == Cmp(x, y) = 0

\* A number that || replaces: 0, -0 and NaN
FalsyOf(x) == x.kind = "NaN" \/ IsZero(x)

Falsy(x) ==
    CHOOSE res \in { FalsyOf(x1) : x1 \in { x } } : TRUE

----------------------------------------------------------------------------
(* Decimals: [neg, limbs, scale] is limbs / 10000^scale with the sign neg,
   the form in which a number is read from a text and written to one. *)

Decimal(neg, limbs, scale) == [ neg |-> neg, limbs |-> limbs, scale |-> scale ]

\* Number of least significant limbs of a that are 0.
LowZeros(a) ==
    CHOOSE k \in 0..Len(a) :
        /\ k = Len(a) \/ a[k + 1] # 0
        /\ \A j \in 1..k : a[j] = 0

Lowest(neg, limbs, scale, z) ==
    Decimal(neg, SubSeq(limbs, z + 1, Len(limbs)), scale - z)

\* limbs / 10000^scale in lowest terms: scale is 0 or the least
\* significant limb is not 0.
CanonOf(neg, limbs, scale) ==
    IF limbs = <<>> THEN Decimal(neg, <<>>, 0)
    ELSE IF scale > 0 /\ limbs[1] = 0
    THEN Lowest(neg, limbs, scale, Min(scale, LowZeros(limbs)))
    ELSE Decimal(neg, limbs, scale)

Canon(neg, limbs, scale) ==
    CHOOSE res \in
        { CanonOf(neg, limbs1, scale1) :
            limbs1 \in { limbs }, scale1 \in { scale } } : TRUE

----------------------------------------------------------------------------
(* The double nearest to a fraction, and the shortest decimal that names a
   double.  Here the significand of a double is in base 10000. *)


\* The natural number a sequence of decimal digits writes.
DigitsToLimbsOf(ds) ==
    [ j \in 1..((Len(ds) + 3) \div 4) |->
        Limb(ds, Len(ds) - 4 * j + 1) * 1000 + Limb(ds, Len(ds) - 4 * j + 2) * 100
          + Limb(ds, Len(ds) - 4 * j + 3) * 10 + Limb(ds, Len(ds) - 4 * j + 4) ]

DigitsToLimbs(ds) ==
    CHOOSE res \in { DigitsToLimbsOf(ds1) : ds1 \in { ds } } : TRUE

\* The decimal sig * 10^x with the sign neg, for a sequence sig of digits.
Exact(neg, sig, x) ==
    IF x >= 0
    THEN Canon(neg, Shift(Trim(DigitsToLimbs(sig \o Zeros(x % 4))), x \div 4), 0)
    ELSE Canon(neg, Trim(DigitsToLimbs(sig \o Zeros((4 - ((0 - x) % 4)) % 4))),
               ((0 - x) + ((4 - ((0 - x) % 4)) % 4)) \div 4)

\* 2^52 and 2^53: a double has a significand m of 53 bits,
\* 2^52 <= m < 2^53, and an exponent e, -1074 <= e <= 971; below 2^-1022
\* its significand is shorter and e is -1074.
TwoTo52 == NatPow2(52)

TwoTo53 == NatPow2(53)

\* The binary exponent e at which num / (den * 2^e) has 53 bits, or -1074:
\* [num, den, e] with the fraction scaled by 2^e.  lo is den * 2^52.
RECURSIVE ScaleBin(_, _, _, _)
ScaleBinOf(num, den, lo, e) ==
    IF NatCmp(num, NatMulSmall(lo, 2)) >= 0
    THEN IF e > 971 THEN [ num |-> num, den |-> den, e |-> e ]
         ELSE IF NatCmp(num, NatMulSmall(lo, 8192)) >= 0
         THEN ScaleBin(num, NatMulSmall(den, 4096), NatMulSmall(lo, 4096), e + 12)
         ELSE ScaleBin(num, NatMulSmall(den, 2), NatMulSmall(lo, 2), e + 1)
    ELSE IF NatCmp(num, lo) < 0 /\ e > -1074
    THEN IF e - 13 >= -1074
              /\ NatCmp(NatMulSmall(num, 8192), NatMulSmall(lo, 2)) < 0
         THEN ScaleBin(NatMulSmall(num, 8192), den, lo, e - 13)
         ELSE ScaleBin(NatMulSmall(num, 2), den, lo, e - 1)
    ELSE [ num |-> num, den |-> den, e |-> e ]

ScaleBin(num, den, lo, e) ==
    CHOOSE res \in
        { ScaleBinOf(num1, den1, lo1, e) :
            num1 \in { num }, den1 \in { den }, lo1 \in { lo } } : TRUE

\* Round to nearest, ties to even: the quotient q of the division by den
\* that left r, plus one when r is more than half of den or half of it
\* with q odd.
RoundedUp(q, r, den) ==
    IF \/ NatCmp(NatMulSmall(r, 2), den) > 0
       \/ NatCmp(NatMulSmall(r, 2), den) = 0 /\ Limb(q, 1) % 2 = 1
    THEN NatAdd(q, << 1 >>) ELSE q

Normal(m, e) ==
    IF NatCmp(m, TwoTo53) = 0 THEN [ m |-> TwoTo52, e |-> e + 1 ]
    ELSE [ m |-> m, e |-> e ]

RoundedQuotient(dm, den, e) ==
    CHOOSE d \in { Normal(m, e) : m \in { RoundedUp(dm.q, dm.r, den) } } : TRUE

Significand(sc) ==
    IF sc.e > 971 THEN [ m |-> << 1 >>, e |-> sc.e ]
    ELSE CHOOSE d \in
             { RoundedQuotient(dm, sc.den, sc.e) :
                 dm \in { NatDivMod(sc.num, sc.den) } } : TRUE

\* The double nearest to num / den: [m, e] for m * 2^e; m is 0 when the
\* fraction is nearer to 0 than to the least double, and e is above 971
\* when it is beyond the largest double (Infinity).
ScaledFrom(num, den, e) == ScaleBin(num, den, NatMul(den, TwoTo52), e)

\* A first exponent, at most a few bits below the one sought.  With t the
\* two most significant limbs of a, of TopBits(a) bits, a lies between
\* t * 10000^(Len(a) - 2) and (t + 1) * 10000^(Len(a) - 2), and 10000 is a
\* little more than 2^13.2877.
TopBits(a) ==
    CHOOSE b \in 1..27 :
        /\ 2 ^ (b - 1) <= Top(a, Len(a) - 1)
        /\ Top(a, Len(a) - 1) < 2 ^ b

ExponentBelow(num, den) ==
    Max(-1074,
        Min(972, TopBits(num) - TopBits(den)
                   + ((Len(num) - Len(den)) * 132877) \div 10000 - 55))

ScaledWith(num, den, e, be) ==
    ScaledFrom(IF e >= 0 THEN num ELSE NatMul(num, be),
               IF e >= 0 THEN NatMul(den, be) ELSE den, e)

ScaledBy(num, den, e) ==
    CHOOSE sc \in
        { ScaledWith(num, den, e, be) :
            be \in { NatPow2(IF e >= 0 THEN e ELSE 0 - e) } } : TRUE

NearestDouble(num, den) ==
    CHOOSE d \in
        { Significand(sc) : sc \in { ScaledBy(num, den, ExponentBelow(num, den)) } } :
        TRUE

\* The shortest decimal that names the double m * 2^e, and among the
\* shortest the nearest to it (free-format printing): the digits of
\* 0.d1 d2 ... * 10^k.  The double is r / s; mp / s and mm / s are half the
\* distance to the next double above and below; inclusive tells that the
\* ends of the interval round to the double (m even).
RECURSIVE Generate(_, _, _, _, _)
Generated(st, s, inclusive) ==
    IF (IF inclusive THEN NatCmp(st.r, st.mm) <= 0 ELSE NatCmp(st.r, st.mm) < 0)
    THEN IF (IF inclusive THEN NatCmp(NatAdd(st.r, st.mp), s) >= 0
                          ELSE NatCmp(NatAdd(st.r, st.mp), s) > 0)
         THEN IF NatCmp(NatMulSmall(st.r, 2), s) < 0 THEN << st.d >>
              ELSE IF NatCmp(NatMulSmall(st.r, 2), s) > 0 THEN << st.d + 1 >>
              ELSE << st.d + (st.d % 2) >>
         ELSE << st.d >>
    ELSE IF (IF inclusive THEN NatCmp(NatAdd(st.r, st.mp), s) >= 0
                          ELSE NatCmp(NatAdd(st.r, st.mp), s) > 0)
         THEN << st.d + 1 >>
         ELSE << st.d >> \o Generate(st.r, s, st.mp, st.mm, inclusive)

\* The next digit d of r / s and what it leaves, r, mp and mm being
\* taken ten times.
DigitTaken(r10, s, mp, mm, d) ==
    [ d  |-> d,
      r  |-> NatSub(r10, NatMulSmall(s, d)),
      mp |-> NatMulSmall(mp, 10),
      mm |-> NatMulSmall(mm, 10) ]

NextDigit(r10, s, mp, mm) ==
    CHOOSE st \in { DigitTaken(r10, s, mp, mm, d) : d \in { Digit(r10, s) } } : TRUE

Generate(r, s, mp, mm, inclusive) ==
    CHOOSE ds \in
        { Generated(st, s, inclusive) :
            st \in { NextDigit(NatMulSmall(r, 10), s, mp, mm) } } : TRUE

\* The power of ten k at which r / s, with its upper end (r + mp) / s, is
\* a fraction 0.d1 d2 ... * 10^k: [r, s, mp, mm, k] with r, mp and mm or s
\* multiplied by the power.
RECURSIVE ScaleDec(_, _, _, _, _, _)
ScaleDecFrom(r, s, mp, mm, k, inclusive, high) ==
    IF (IF inclusive THEN NatCmp(high, s) >= 0 ELSE NatCmp(high, s) > 0)
    THEN IF NatCmp(high, Shift(s, 1)) >= 0
         THEN ScaleDec(r, Shift(s, 1), mp, mm, k + 4, inclusive)
         ELSE ScaleDec(r, NatMulSmall(s, 10), mp, mm, k + 1, inclusive)
    ELSE IF (IF inclusive THEN NatCmp(NatMulSmall(high, 10), s) < 0
                          ELSE NatCmp(NatMulSmall(high, 10), s) <= 0)
    THEN IF NatCmp(Shift(NatMulSmall(high, 10), 1), s) < 0
         THEN ScaleDec(Shift(r, 1), s, Shift(mp, 1), Shift(mm, 1), k - 4, inclusive)
         ELSE ScaleDec(NatMulSmall(r, 10), s, NatMulSmall(mp, 10),
                       NatMulSmall(mm, 10), k - 1, inclusive)
    ELSE [ r |-> r, s |-> s, mp |-> mp, mm |-> mm, k |-> k ]

ScaleDecOf(r, s, mp, mm, k, inclusive) ==
    CHOOSE res \in
        { ScaleDecFrom(r, s, mp, mm, k, inclusive, high) :
            high \in { NatAdd(r, mp) } } : TRUE

ScaleDec(r, s, mp, mm, k, inclusive) ==
    CHOOSE res \in
        { ScaleDecOf(r1, s1, mp1, mm1, k, inclusive) :
            r1 \in { r }, s1 \in { s }, mp1 \in { mp }, mm1 \in { mm } } : TRUE

\* A first power of ten, from the lengths of r + mp and s.
ScaleDecBy(r, s, mp, mm, inclusive, n) ==
    IF n >= 0 THEN ScaleDec(r, Shift(s, n), mp, mm, 4 * n, inclusive)
    ELSE ScaleDec(Shift(r, 0 - n), s, Shift(mp, 0 - n), Shift(mm, 0 - n),
                  4 * n, inclusive)

Digitized(sc, inclusive) ==
    [ digits |-> Generate(sc.r, sc.s, sc.mp, sc.mm, inclusive), k |-> sc.k ]

ShortestFromOf(r, s, mp, mm, inclusive) ==
    CHOOSE sh \in
        { Digitized(sc, inclusive) :
            sc \in { ScaleDecBy(r, s, mp, mm, inclusive,
                                Len(NatAdd(r, mp)) - Len(s)) } } : TRUE

ShortestFrom(r, s, mp, mm, inclusive) ==
    CHOOSE res \in
        { ShortestFromOf(r1, s1, mp1, mm1, inclusive) :
            r1 \in { r }, s1 \in { s }, mp1 \in { mp }, mm1 \in { mm } } : TRUE

\* The gap below the double is half the gap above it at a power of two.
NarrowBelow(m, e) == NatCmp(m, TwoTo52) = 0 /\ e > -1074

ShortestWith(m, e, two, be) ==
    ShortestFrom(NatMulSmall(IF e >= 0 THEN NatMul(m, be) ELSE m, 2 * two),
                 IF e >= 0 THEN NatOf(2 * two) ELSE NatMulSmall(be, 2 * two),
                 IF e >= 0 THEN NatMulSmall(be, two) ELSE NatOf(two),
                 IF e >= 0 THEN be ELSE << 1 >>,
                 Limb(m, 1) % 2 = 0)

Shortest(m, e) ==
    ShortestWith(m, e, IF NarrowBelow(m, e) THEN 2 ELSE 1,
                 NatPow2(IF e >= 0 THEN e ELSE 0 - e))

Named(neg, sh) == Exact(neg, sh.digits, sh.k - Len(sh.digits))

----------------------------------------------------------------------------
(* Binary naturals: limbs in base 16384 = 2^14 *)

BinAdd(a, b) ==
    CHOOSE res \in { AddOf(a1, b1, 16384) : a1 \in { a }, b1 \in { b } } : TRUE

\* a - b, for a >= b
BinSub(a, b) ==
    CHOOSE res \in { SubOf(a1, b1, 16384) : a1 \in { a }, b1 \in { b } } : TRUE

\* The limbs of an integer n >= 0.
BinOf(n) ==
    IF n = 0 THEN <<>>
    ELSE IF n < 16384 THEN << n >>
    ELSE IF n < 268435456 THEN << n % 16384, n \div 16384 >>
    ELSE << n % 16384, (n \div 16384) % 16384, n \div 268435456 >>

\* Number of bits of a limb n > 0, and of a natural a.
Bits(n) == CHOOSE b \in 1..14 : 2 ^ (b - 1) <= n /\ n < 2 ^ b

BitLen(a) == IF a = <<>> THEN 0 ELSE 14 * (Len(a) - 1) + Bits(a[Len(a)])

\* a * 2^(14 * w + r)
ShiftLeftOf(a, w, r) ==
    Trim([ k \in 1..(Len(a) + w + 1) |->
             (Limb(a, k - w) % 2 ^ (14 - r)) * 2 ^ r
               + Limb(a, k - w - 1) \div 2 ^ (14 - r) ])

ShiftLeft(a, s) ==
    CHOOSE res \in { ShiftLeftOf(a1, s \div 14, s % 14) : a1 \in { a } } : TRUE

\* The integer part of a / 2^(14 * w + r)
ShiftRightOf(a, w, r) ==
    Trim([ k \in 1..(Len(a) - w) |->
             Limb(a, k + w) \div 2 ^ r
               + (Limb(a, k + w + 1) % 2 ^ r) * 2 ^ (14 - r) ])

ShiftRight(a, s) ==
    CHOOSE res \in { ShiftRightOf(a1, s \div 14, s % 14) : a1 \in { a } } : TRUE

\* Bit i of a, bit 0 being the least significant.
BitAt(a, i) == (Limb(a, i \div 14 + 1) \div 2 ^ (i % 14)) % 2

\* Whether a bit of a below bit s is set.
AnyBelow(a, s) ==
    \E k \in 1..Len(a) :
        \/ k <= s \div 14 /\ a[k] # 0
        \/ k = s \div 14 + 1 /\ a[k] % 2 ^ (s % 14) # 0

\* a * k for an integer k in 0..16384: each limb times k is a low limb
\* here and a high limb one place up.
BinMulSmallOf(a, k) ==
    BinAdd([ i \in 1..Len(a) |-> (a[i] * k) % 16384 ],
           << 0 >> \o [ i \in 1..Len(a) |-> (a[i] * k) \div 16384 ])

BinMulSmall(a, k) ==
    CHOOSE res \in { BinMulSmallOf(a1, k) : a1 \in { a } } : TRUE

\* a * b for a and b of at most four limbs.  The products of limbs that
\* fall on place k have a sum below 2^30, which is three limbs, on the
\* places k, k + 1 and k + 2.
Column(a, b, k) ==
    Limb(a, 1) * Limb(b, k) + Limb(a, 2) * Limb(b, k - 1)
      + Limb(a, 3) * Limb(b, k - 2) + Limb(a, 4) * Limb(b, k - 3)

Carried(c) ==
    BinAdd(BinAdd([ k \in 1..Len(c) |-> c[k] % 16384 ],
                  << 0 >> \o [ k \in 1..Len(c) |-> (c[k] \div 16384) % 16384 ]),
           << 0, 0 >> \o [ k \in 1..Len(c) |-> c[k] \div 268435456 ])

BinMul(a, b) ==
    CHOOSE p \in
        { Carried(c) :
            c \in { [ k \in 1..(Len(a) + Len(b)) |-> Column(a, b, k) ] } } : TRUE

\* The limbs in base 10000 of a binary natural, from its limb i up, and
\* the binary natural of limbs in base 10000.
RECURSIVE ToDecFrom(_, _)
ToDecFrom(a, i) ==
    IF i > Len(a) THEN <<>>
    ELSE NatAdd(NatMulSmall(NatMulSmall(ToDecFrom(a, i + 1), 128), 128),
                NatOf(a[i]))

ToDec(a) == ToDecFrom(a, 1)

RECURSIVE ToBinFrom(_, _)
ToBinFrom(a, i) ==
    IF i > Len(a) THEN <<>>
    ELSE BinAdd(BinMulSmall(ToBinFrom(a, i + 1), 10000), BinOf(a[i]))

ToBin(a) == ToBinFrom(a, 1)

----------------------------------------------------------------------------
(* Rounding to a double *)

TwoTo52Bin == << 0, 0, 0, 1024 >>

TwoTo53Bin == << 0, 0, 0, 2048 >>

\* The double m * 2^e of a significand that has been rounded: one that
\* rounded up to 2^53 is 2^52 with the next exponent, and past the
\* exponent 971 it is Infinity.
Packed(neg, m, e) ==
    IF m = <<>> THEN Double(neg, <<>>, 0)
    ELSE IF m = TwoTo53Bin
    THEN IF e + 1 > 971 THEN Infinite(neg) ELSE Double(neg, TwoTo52Bin, e + 1)
    ELSE IF e > 971 THEN Infinite(neg)
    ELSE Double(neg, m, e)

\* a / 2^s for s > 0, rounded to nearest, ties to even: one more than the
\* integer part when the first bit dropped is set and either a bit below
\* it is, or something is left beyond a (sticky), or the integer part is
\* odd.
RoundedShift(a, s, sticky) ==
    IF BitAt(a, s - 1) = 1 /\ (sticky \/ AnyBelow(a, s - 1) \/ BitAt(a, s) = 1)
    THEN BinAdd(ShiftRight(a, s), << 1 >>)
    ELSE ShiftRight(a, s)

RoundedAt(neg, a, e, sticky, s) ==
    IF s <= 0 THEN Packed(neg, ShiftLeft(a, 0 - s), e + s)
    ELSE Packed(neg, RoundedShift(a, s, sticky), e + s)

\* The double nearest to (a + t) * 2^e for a binary natural a, t being 0,
\* or some fraction 0 < t < 1 when sticky: a is taken to 53 bits, or to as
\* many as the exponent -1074 leaves.
NormalizedOf(neg, a, e, sticky) ==
    IF a = <<>> THEN Double(neg, <<>>, 0)
    ELSE RoundedAt(neg, a, e, sticky, Max(BitLen(a) - 53, 0 - 1074 - e))

Normalized(neg, a, e, sticky) ==
    CHOOSE res \in { NormalizedOf(neg, a1, e, sticky) : a1 \in { a } } : TRUE

\* The integer n as a number.
Whole(n) == Normalized(n < 0, BinOf(IF n < 0 THEN 0 - n ELSE n), 0, FALSE)

\* n / 2 as a number, for an integer n.
Halves(n) == Normalized(n < 0, BinOf(IF n < 0 THEN 0 - n ELSE n), -1, FALSE)

\* The number of a double [m, e] with m in base 10000.
OfDoubleOf(neg, d) ==
    IF d.e > 971 THEN Infinite(neg)
    ELSE IF d.m = <<>> THEN Double(neg, <<>>, 0)
    ELSE Double(neg, ToBin(d.m), d.e)

OfDouble(neg, d) ==
    CHOOSE res \in { OfDoubleOf(neg, d1) : d1 \in { d } } : TRUE

\* limbs * 16 / 10000 for limbs whose least significant one is a multiple
\* of 625.
Sixteenths(limbs) == Tail(NatMulSmall(limbs, 16))

\* The double nearest to the decimal limbs / 10000^scale, ties to even.
\* A whole number, or a whole number of sixteenths, is rounded as it
\* stands; for any other the significand is worked out by division.
RoundedOf(neg, limbs, scale) ==
    IF limbs = <<>> THEN Double(neg, <<>>, 0)
    ELSE IF scale = 0 /\ Len(limbs) <= 8
    THEN Normalized(neg, ToBin(limbs), 0, FALSE)
    ELSE IF scale = 1 /\ Len(limbs) <= 8 /\ limbs[1] % 625 = 0
    THEN Normalized(neg, ToBin(Sixteenths(limbs)), -4, FALSE)
    ELSE OfDouble(neg, NearestDouble(limbs, Shift(<< 1 >>, scale)))

Round(x) ==
    CHOOSE r \in { RoundedOf(v.neg, v.limbs, v.scale) : v \in { x } } : TRUE

\* The double nearest to n / 10000, for a natural n: a literal of script.js
\* such as 0.062.
TenThousandths(n) == Round(Canon(FALSE, NatOf(n), 1))

\* Number of the four digits of a limb n > 0 that are leading zeros.
Padding(n) == IF n >= 1000 THEN 0 ELSE IF n >= 100 THEN 1 ELSE IF n >= 10 THEN 2 ELSE 3

\* The shortest decimal that no other double is nearer to than x, the one
\* JavaScript prints x under.  A whole number of sixteenths below 2^36 is
\* that decimal itself: it has at most 15 digits.
InSixteenths(x) ==
    /\ x.e <= 0
    /\ BitLen(x.m) + x.e + 4 <= 40
    /\ x.e >= -4 \/ ~AnyBelow(x.m, 0 - x.e - 4)

SixteenthsOf(x) ==
    IF x.e >= -4 THEN ShiftLeft(x.m, x.e + 4) ELSE ShiftRight(x.m, 0 - x.e - 4)

NameOf(x) ==
    IF x.m = <<>> THEN Decimal(x.neg, <<>>, 0)
    ELSE IF InSixteenths(x)
    THEN Canon(x.neg, NatMulSmall(ToDec(SixteenthsOf(x)), 625), 1)
    ELSE Named(x.neg, Shortest(ToDec(x.m), x.e))

Name(x) == CHOOSE n \in { NameOf(v) : v \in { x } } : TRUE

----------------------------------------------------------------------------
(* Arithmetic *)

\* |x| - |y| or |y| - |x| with the sign of the larger, for the
\* significands a of x and b of y at the exponent e; 0 when they cancel.
Difference(x, y, a, b, e) ==
    CASE NatCmp(a, b) = 0 -> Zero
      [] NatCmp(a, b) > 0 -> Normalized(x.neg, BinSub(a, b), e, FALSE)
      [] OTHER            -> Normalized(y.neg, BinSub(b, a), e, FALSE)

SumAt(x, y, a, b, e) ==
    IF x.neg = y.neg THEN Normalized(x.neg, BinAdd(a, b), e, FALSE)
    ELSE Difference(x, y, a, b, e)

\* x + y for finite x and y that are not 0, x.e >= y.e: the significand of
\* x is taken to the exponent of y.  Past 64 bits apart y is less than a
\* quarter of the gap between x and the doubles next to it.
SumOf(x, y) ==
    IF x.e - y.e > 64 THEN x
    ELSE CHOOSE res \in
             { SumAt(x, y, a, y.m, y.e) : a \in { ShiftLeft(x.m, x.e - y.e) } } :
             TRUE

\* x + y: the double nearest to the sum
PlusOf(x, y) ==
    IF x.kind = "NaN" \/ y.kind = "NaN" THEN NaN
    ELSE IF x.kind = "Infinity"
    THEN IF y.kind = "Infinity" /\ x.neg # y.neg THEN NaN ELSE x
    ELSE IF y.kind = "Infinity" THEN y
    ELSE IF x.m = <<>> THEN (IF y.m = <<>> THEN Double(x.neg /\ y.neg, <<>>, 0) ELSE y)
    ELSE IF y.m = <<>> THEN x
    ELSE SumOf(IF x.e >= y.e THEN x ELSE y, IF x.e >= y.e THEN y ELSE x)

Plus(x, y) ==
    CHOOSE res \in { PlusOf(x1, y1) : x1 \in { x }, y1 \in { y } } : TRUE

NegatedOf(x) == IF x.kind = "NaN" THEN x ELSE [ x EXCEPT !.neg = ~x.neg ]

Negated(x) ==
    CHOOSE res \in { NegatedOf(x1) : x1 \in { x } } : TRUE

\* x - y
Minus(x, y) == Plus(x, Negated(y))

\* x * y: the double nearest to the product
TimesOf(x, y) ==
    IF x.kind = "NaN" \/ y.kind = "NaN" THEN NaN
    ELSE IF x.kind = "Infinity" \/ y.kind = "Infinity"
    THEN IF IsZero(x) \/ IsZero(y) THEN NaN ELSE Infinite(x.neg # y.neg)
    ELSE Normalized(x.neg # y.neg, BinMul(x.m, y.m), x.e + y.e, FALSE)

Times(x, y) ==
    CHOOSE res \in { TimesOf(x1, y1) : x1 \in { x }, y1 \in { y } } : TRUE

\* Number of least significant bits of a limb n > 0, and of a binary
\* natural a # 0, that are 0.
LowBits(n) == CHOOSE b \in 0..13 : n % 2 ^ b = 0 /\ n % 2 ^ (b + 1) # 0

TrailingZeros(a) == 14 * LowZeros(a) + LowBits(a[LowZeros(a) + 1])

\* Division of the binary natural a by an integer d, 0 < d < 16384, from
\* limb i of a down, rem being what the limbs above i have left: [q, r].
RECURSIVE ShortDivFrom(_, _, _, _)
ShortDivDigit(a, d, i, cur) ==
    CHOOSE res \in
        { [ q |-> rest.q \o << cur \div d >>, r |-> rest.r ] :
            rest \in { ShortDivFrom(a, d, i - 1, cur % d) } } : TRUE

ShortDivFrom(a, d, i, rem) ==
    IF i = 0 THEN [ q |-> <<>>, r |-> rem ]
    ELSE ShortDivDigit(a, d, i, rem * 16384 + a[i])

Short(res) == [ q |-> Trim(res.q), sticky |-> res.r # 0 ]

Long(dm) == [ q |-> ToBin(dm.q), sticky |-> dm.r # <<>> ]

\* The integer part q of a / d for binary naturals a and d # 0, and
\* whether the division leaves something (sticky).
DividedBy(a, d) ==
    IF Len(d) = 1 THEN Short(ShortDivFrom(a, d[1], Len(a), 0))
    ELSE Long(NatDivMod(ToDec(a), ToDec(d)))

\* The double nearest to x / y for finite x and y that are not 0.  The
\* significand of y is taken without its trailing zero bits (d), and that
\* of x is taken s bits up, so that the integer part of the quotient has
\* 56 or 57 bits.
QuotientOf(neg, dv, e) == Normalized(neg, dv.q, e, dv.sticky)

QuotientBy(x, neg, d, e, s) ==
    CHOOSE res \in
        { QuotientOf(neg, dv, x.e - e - s) :
            dv \in { DividedBy(ShiftLeft(x.m, s), d) } } : TRUE

QuotientFrom(x, y, tz) ==
    CHOOSE res \in
        { QuotientBy(x, x.neg # y.neg, d, y.e + tz, 56 + BitLen(d) - BitLen(x.m)) :
            d \in { ShiftRight(y.m, tz) } } : TRUE

Quotient(x, y) == QuotientFrom(x, y, TrailingZeros(y.m))

\* x / y
OverOf(x, y) ==
    IF x.kind = "NaN" \/ y.kind = "NaN" THEN NaN
    ELSE IF x.kind = "Infinity"
    THEN IF y.kind = "Infinity" THEN NaN ELSE Infinite(x.neg # y.neg)
    ELSE IF y.kind = "Infinity" THEN Double(x.neg # y.neg, <<>>, 0)
    ELSE IF IsZero(y) THEN IF IsZero(x) THEN NaN ELSE Infinite(x.neg # y.neg)
    ELSE IF IsZero(x) THEN Double(x.neg # y.neg, <<>>, 0)
    ELSE Quotient(x, y)

Over(x, y) ==
    CHOOSE res \in { OverOf(x1, y1) : x1 \in { x }, y1 \in { y } } : TRUE

\* Math.max(x, y) and Math.min(x, y): NaN when either is, and 0 above -0
MathMaxOf(x, y) ==
    IF x.kind = "NaN" \/ y.kind = "NaN" THEN NaN
    ELSE IF Less(x, y) THEN y
    ELSE IF Less(y, x) THEN x
    ELSE IF x.neg THEN y ELSE x

MathMax(x, y) ==
    CHOOSE res \in { MathMaxOf(x1, y1) : x1 \in { x }, y1 \in { y } } : TRUE

MathMinOf(x, y) ==
    IF x.kind = "NaN" \/ y.kind = "NaN" THEN NaN
    ELSE IF Less(x, y) THEN x
    ELSE IF Less(y, x) THEN y
    ELSE IF x.neg THEN x ELSE y

MathMin(x, y) ==
    CHOOSE res \in { MathMinOf(x1, y1) : x1 \in { x }, y1 \in { y } } : TRUE

----------------------------------------------------------------------------
(* Texts and numbers: parseNumber, formatWithCommas, formatInputValue *)


DigitChars == <<"0", "1", "2", "3", "4", "5", "6", "7", "8", "9">>

Digits == { DigitChars[i] : i \in 1..10 }

DigitVal(c) == (CHOOSE i \in 1..10 : DigitChars[i] = c) - 1

\* String(value).replace(/,/g, '').replace(/[^\d.-]/g, '')
Cleaned(t) == SelectSeq(t, LAMBDA c : c \in Digits \cup {".", "-"})

\* Number of leading digit characters of s from position i on.
DigitRun(s, i) ==
    (CHOOSE k \in i..(Len(s) + 1) :
         /\ k > Len(s) \/ s[k] \notin Digits
         /\ \A j \in i..(k - 1) : s[j] \in Digits) - i

\* The values of the n digit characters of s from position i on.
DigitSeq(s, i, n) == [ k \in 1..n |-> DigitVal(s[i + k - 1]) ]

\* The number read from s: its digits start at b, nInt of them before the
\* point and nFrc after it.
Parsed(s, neg, b, nInt, nFrc) ==
    IF nInt + nFrc = 0 THEN NaN
    ELSE Round(Exact(neg, DigitSeq(s, b, nInt) \o DigitSeq(s, b + nInt + 1, nFrc),
                     0 - nFrc))

ParseFraction(s, neg, b, nInt) ==
    CHOOSE r \in
        { Parsed(s, neg, b, nInt, nFrc) :
            nFrc \in { IF b + nInt <= Len(s) /\ s[b + nInt] = "."
                       THEN DigitRun(s, b + nInt + 1) ELSE 0 } } : TRUE

ParseDigits(s, neg, b) ==
    CHOOSE r \in { ParseFraction(s, neg, b, nInt) : nInt \in { DigitRun(s, b) } } :
        TRUE

\* parseFloat: the longest prefix [-] digits [. digits] of s; NaN when it
\* holds no digit.
Signed(s) == Len(s) > 0 /\ s[1] = "-"

parseFloat(s) == ParseDigits(s, Signed(s), IF Signed(s) THEN 2 ELSE 1)

\* isFinite(num) ? num : 0
FiniteOrZero(num) == IF num.kind = "finite" THEN num ELSE Zero

\* parseNumber(value) for a text value.
parseNumber(t) ==
    CHOOSE r \in
        { FiniteOrZero(num) : num \in { parseFloat(s) : s \in { Cleaned(t) } } } :
        TRUE


\* The k-th of the four decimal digits of a limb.
LimbDigit(n, k) ==
    DigitChars[(CASE k = 0 -> n \div 1000 [] k = 1 -> (n \div 100) % 10
                  [] k = 2 -> (n \div 10) % 10 [] OTHER -> n % 10) + 1]

\* The decimal digits of the natural number with limbs a.
LimbsTextOf(a) ==
    IF a = <<>> THEN <<"0">>
    ELSE SubSeq([ k \in 1..(4 * Len(a)) |->
                    LimbDigit(a[Len(a) - (k - 1) \div 4], (k - 1) % 4) ],
                Padding(a[Len(a)]) + 1, 4 * Len(a))

LimbsText(a) ==
    CHOOSE res \in { LimbsTextOf(a1) : a1 \in { a } } : TRUE

\* en-US grouping: a comma before every group of three digits.  Counted
\* from the right, every fourth place is a comma.
GroupedAt(d, p) == IF p % 4 = 0 THEN "," ELSE d[Len(d) - (p - p \div 4) + 1]

GroupedOf(d) ==
    [ k \in 1..(Len(d) + (Len(d) - 1) \div 3) |->
        GroupedAt(d, Len(d) + (Len(d) - 1) \div 3 - k + 1) ]

Grouped(d) ==
    CHOOSE res \in { GroupedOf(d1) : d1 \in { d } } : TRUE

\* The limbs of the integer part of n, and the first four digits of its
\* fraction.
IntegerPart(n) == SubSeq(n.limbs, n.scale + 1, Len(n.limbs))

FractionLimb(n) == IF n.scale >= 1 THEN Limb(n.limbs, n.scale) ELSE 0

\* |n| in hundredths, rounded half away from zero: the third fraction digit
\* decides, n being the decimal the double is printed under.
Cents(n) ==
    NatAdd(NatMulSmall(IntegerPart(n), 100),
           NatOf(FractionLimb(n) \div 100
                   + (IF (FractionLimb(n) \div 10) % 10 >= 5 THEN 1 ELSE 0)))

CentsTextOf(d) == IF Len(d) < 3 THEN SubSeq(<<"0", "0">>, 1, 3 - Len(d)) \o d ELSE d

CentsText(d) ==
    CHOOSE res \in { CentsTextOf(d1) : d1 \in { d } } : TRUE

CurrencyOf(neg, d) ==
    (IF neg THEN <<"-">> ELSE <<>>)
      \o Grouped(SubSeq(d, 1, Len(d) - 2)) \o <<".">>
      \o SubSeq(d, Len(d) - 1, Len(d))

Currency(neg, d) ==
    CHOOSE res \in { CurrencyOf(neg, d1) : d1 \in { d } } : TRUE

\* The text of cents hundredths with the sign neg.
FormatCents(neg, cents) == Currency(neg, CentsText(LimbsText(cents)))

\* formatWithCommas(num, 2): 0 for a number that is not finite, then
\* toLocaleString('en-US') with exactly two fraction digits, rounding half
\* away from zero, a minus sign for every negative number, negative zero
\* included.
formatWithCommasOf(n) ==
    IF n.kind = "finite" THEN FormatCents(n.neg, Cents(Name(n)))
    ELSE FormatCents(FALSE, <<>>)

formatWithCommas(n) ==
    CHOOSE res \in { formatWithCommasOf(n1) : n1 \in { n } } : TRUE

\* The characters String.prototype.trim strips: white space and line
\* terminators.  A character that cannot be written in a string is named
\* by its code point, as "U+2003".
WhiteSpace ==
    { " ", "\t", "\n", "\r", "\f", "", " ", " ", "﻿",
      "U+000B", "U+00A0", "U+1680", "U+2000", "U+2001", "U+2002",
      "U+2003", "U+2004", "U+2005", "U+2006", "U+2007", "U+2008",
      "U+2009", "U+200A", "U+2028", "U+2029", "U+202F", "U+205F",
      "U+3000", "U+FEFF" }

\* value.trim() === ''
IsBlank(t) == \A i \in 1..Len(t) : t[i] \in WhiteSpace

\* The value formatInputValue leaves in an input holding t.
FormattedAs(t, numericValue) ==
    IF IsZero(numericValue) /\ IsBlank(t) THEN <<>>
    ELSE formatWithCommas(numericValue)

formatInputValue(t) ==
    CHOOSE r \in { FormattedAs(t, n) : n \in { parseNumber(t) } } : TRUE

----------------------------------------------------------------------------
(* Tax tables and calculateFederalTax *)

FilingStatuses == {"single", "married", "head"}

\* federalBrackets[status].thresholds
Thresholds(status) ==
    CASE status = "single"  -> <<11925, 48475, 103350, 197300, 250525, 626350>>
      [] status = "married" -> <<23850, 96950, 206700, 394600, 501050, 751600>>
      [] status = "head"    -> <<17000, 64850, 103350, 197300, 250500, 626350>>

\* federalBrackets[status].rates, in percent.
Rates(status) == <<10, 12, 22, 24, 32, 35, 37>>

\* The rates as numbers: 0.10 is the double nearest to one tenth.
RateNumbers ==
    [ status \in FilingStatuses |->
        [ i \in 1..Len(Rates(status)) |-> TenThousandths(Rates(status)[i] * 100) ] ]

\* rates[i]
Rate(status, i) == RateNumbers[status][i]

\* thresholds[i] !== undefined ? thresholds[i] : Infinity
Upper(status, i) ==
    IF i <= Len(Thresholds(status)) THEN Whole(Thresholds(status)[i])
    ELSE Infinite(FALSE)

\* (amount - previousThreshold) * rate: the slice a bracket taxes.
SliceFromZero(amount, previousThreshold, rate) == Times(amount, rate)

Slice(amount, previousThreshold, rate) == Times(Minus(amount, previousThreshold), rate)

\* The for loop of calculateFederalTax from index i (1-based) on.
RECURSIVE FederalTaxLoop(_, _, _, _, _)
FederalTaxLoop(taxableIncome, status, i, tax, previousThreshold) ==
    IF i > Len(Rates(status)) THEN tax
    ELSE IF Less(Upper(status, i), taxableIncome)
    THEN FederalTaxLoop(taxableIncome, status, i + 1,
             Plus(tax, Slice(Upper(status, i), previousThreshold, Rate(status, i))),
             Upper(status, i))
    ELSE Plus(tax, Slice(taxableIncome, previousThreshold, Rate(status, i)))

\* calculateFederalTax(taxableIncome, status)
FederalTaxOf(taxableIncome, status) ==
    IF LessEq(taxableIncome, Zero) THEN Zero
    ELSE FederalTaxLoop(taxableIncome, status, 1, Zero, Zero)

calculateFederalTax(taxableIncome, status) ==
    CHOOSE tax \in
        { FederalTaxOf(taxableIncome1, status) :
            taxableIncome1 \in { taxableIncome } } : TRUE

----------------------------------------------------------------------------
(* The page: the identified form fields script.js reads, and its custom rows.
   dom is a record [checked, value, rows, themeLight]:
     checked[id]  the checked flag of a checkbox or radio,
     value[id]    the value text of a text input or select,
     rows[c]      the custom-item rows of container c, each [label, value],
     themeLight   whether body carries the class theme-light. *)

CheckIds ==
    { "salaryRadio", "hourlyRadio", "vehicleCheckbox",
      "publicTransportCheckbox", "rideShareCheckbox", "miscTravelCheckbox" }

\* The text inputs carrying data-format (those getInputNumber reads).
FormatIds ==
    { "annualSalary", "hourlyWage", "hoursPerWeek", "overtimeHours",
      "overtimeMultiplier", "housingAmount", "propertyTax", "utilitiesBase",
      "vehiclePayment", "fuelCosts", "autoInsuranceAmount", "foodExpenses" }

SelectIds == { "stateSelect", "filingStatus", "housingType", "autoInsurancePeriod" }

ValueIds == FormatIds \cup SelectIds

\* The two radios of the income mode, one group: checking one unchecks the
\* other.
IncomeRadios == { "salaryRadio", "hourlyRadio" }

\* The identified inputs and selects in document order, the order of
\* document.querySelectorAll('input, select').
FieldOrder ==
    << "salaryRadio", "hourlyRadio", "annualSalary", "hourlyWage",
       "hoursPerWeek", "overtimeHours", "overtimeMultiplier", "stateSelect",
       "filingStatus", "housingType", "housingAmount", "propertyTax",
       "utilitiesBase", "vehicleCheckbox", "vehiclePayment", "fuelCosts",
       "autoInsuranceAmount", "autoInsurancePeriod",
       "publicTransportCheckbox", "rideShareCheckbox", "miscTravelCheckbox",
       "foodExpenses" >>

MORTGAGE == <<"m", "o", "r", "t", "g", "a", "g", "e">>

\* The page as the markup delivers it, after populateStates.
DefaultDom ==
    [ checked    |-> [ id \in CheckIds |-> id = "salaryRadio" ],
      value      |-> [ id \in ValueIds |->
                         CASE id = "stateSelect"  -> <<"A", "l", "a", "b", "a", "m", "a">>
                           [] id = "filingStatus" -> <<"s", "i", "n", "g", "l", "e">>
                           [] id = "housingType"  -> <<"r", "e", "n", "t">>
                           [] id = "autoInsurancePeriod" -> <<"1">>
                           [] OTHER -> <<>> ],
      rows       |-> [ c \in Containers |-> <<>> ],
      themeLight |-> FALSE ]

----------------------------------------------------------------------------
(* calculateExpenses *)

getInputNumber(d, id) == parseNumber(d.value[id])

\* getInputNumber of each of the inputs ids.
InputNumbers(d, ids) == [ id \in ids |-> getInputNumber(d, id) ]

\* rows.forEach(... sum += val) from row i on.
RECURSIVE SumRows(_, _, _)
SumRows(rs, i, sum) ==
    IF i > Len(rs) THEN sum
    ELSE SumRows(rs, i + 1, Plus(sum, parseNumber(rs[i].value)))

sumCustomItems(d, containerId) == SumRows(d.rows[containerId], 1, Zero)

\* sumCustomItems of each container.
CustomSums(d) == [ c \in Containers |-> sumCustomItems(d, c) ]

\* A sub-total that counts only when its enable checkbox is checked.
Ungated(isChecked, amount) == amount

Gated(isChecked, amount) == IF isChecked THEN amount ELSE Zero

\* parseNumber(...) || 1
PeriodOf(n) == IF Falsy(n) THEN Whole(1) ELSE n

\* period > 0 ? insuranceAmount / period : 0
PerPeriod(insuranceAmount, period) ==
    IF Less(Zero, period) THEN Over(insuranceAmount, period) ELSE Zero

insuranceMonthly(n) ==
    PerPeriod(n["autoInsuranceAmount"], PeriodOf(n["autoInsurancePeriod"]))

\* The inputs calculateExpenses reads as numbers.
ExpenseInputs ==
    { "housingAmount", "propertyTax", "utilitiesBase", "vehiclePayment",
      "fuelCosts", "autoInsuranceAmount", "autoInsurancePeriod", "foodExpenses" }

\* The object calculateExpenses returns, from its component totals.
TotalsWith(housingTotal, utilitiesTotal, vehicleTotal, publicTotal, rideShareTotal, miscTravelTotal, travelTotal, foodTotal, additionalTotal) ==
    [ housingTotal    |-> housingTotal,
      utilitiesTotal  |-> utilitiesTotal,
      vehicleTotal    |-> vehicleTotal,
      publicTotal     |-> publicTotal,
      rideShareTotal  |-> rideShareTotal,
      miscTravelTotal |-> miscTravelTotal,
      travelTotal     |-> travelTotal,
      foodTotal       |-> foodTotal,
      additionalTotal |-> additionalTotal,
      total |-> Plus(Plus(Plus(Plus(housingTotal, utilitiesTotal), travelTotal),
                          foodTotal), additionalTotal) ]

\* travelTotal = vehicleTotal + publicTotal + rideShareTotal + miscTravelTotal
Totals(housingTotal, utilitiesTotal, vehicleTotal, publicTotal, rideShareTotal, miscTravelTotal, foodTotal, additionalTotal) ==
    CHOOSE t \in
        { TotalsWith(housingTotal, utilitiesTotal, vehicleTotal, publicTotal,
                     rideShareTotal, miscTravelTotal, travelTotal, foodTotal,
                     additionalTotal) :
            travelTotal \in { Plus(Plus(Plus(vehicleTotal, publicTotal),
                                        rideShareTotal), miscTravelTotal) } } : TRUE

\* calculateExpenses on the numbers n of its inputs and the sums sum of the
\* custom rows.
ExpensesFrom(d, n, sum) ==
    CHOOSE t \in
        { Totals(housingTotal, utilitiesTotal, vehicleTotal, publicTotal,
                 rideShareTotal, miscTravelTotal, n["foodExpenses"],
                 sum["additionalExpenses"]) :
            \* housingTotal = housingAmount + propertyTax + housingExtras
            housingTotal \in
              { Plus(Plus(n["housingAmount"],
                          IF d.value["housingType"] = MORTGAGE
                          THEN n["propertyTax"] ELSE Zero),
                     sum["housingExtras"]) },
            utilitiesTotal \in { Plus(n["utilitiesBase"], sum["utilitiesExtras"]) },
            vehicleTotal \in
              { Gated(d.checked["vehicleCheckbox"],
                      Plus(Plus(Plus(n["vehiclePayment"], n["fuelCosts"]),
                                insuranceMonthly(n)),
                           sum["vehicleExtras"])) },
            publicTotal \in
              { Gated(d.checked["publicTransportCheckbox"],
                      sum["publicTransportExtras"]) },
            rideShareTotal \in
              { Gated(d.checked["rideShareCheckbox"], sum["rideShareExtras"]) },
            miscTravelTotal \in
              { Gated(d.checked["miscTravelCheckbox"], sum["miscTravelExtras"]) } } :
        TRUE

calculateExpenses(d) ==
    CHOOSE t \in
        { ExpensesFrom(d, n, sum) :
            n \in { InputNumbers(d, ExpenseInputs) }, sum \in { CustomSums(d) } } :
        TRUE

----------------------------------------------------------------------------
(* calculateIncome *)

\* stateTaxRates: each state's name with its rate, in hundredths of a percent.
stateTaxRates ==
    <<
       << <<"A", "l", "a", "b", "a", "m", "a">>, 415 >>,
       << <<"A", "l", "a", "s", "k", "a">>, 0 >>,
       << <<"A", "r", "i", "z", "o", "n", "a">>, 250 >>,
       << <<"A", "r", "k", "a", "n", "s", "a", "s">>, 390 >>,
       << <<"C", "a", "l", "i", "f", "o", "r", "n", "i", "a">>, 1440 >>,
       << <<"C", "o", "l", "o", "r", "a", "d", "o">>, 440 >>,
       << <<"C", "o", "n", "n", "e", "c", "t", "i", "c", "u", "t">>, 699 >>,
       << <<"D", "e", "l", "a", "w", "a", "r", "e">>, 785 >>,
       << <<"F", "l", "o", "r", "i", "d", "a">>, 0 >>,
       << <<"G", "e", "o", "r", "g", "i", "a">>, 539 >>,
       << <<"H", "a", "w", "a", "i", "i">>, 1100 >>,
       << <<"I", "d", "a", "h", "o">>, 570 >>,
       << <<"I", "l", "l", "i", "n", "o", "i", "s">>, 495 >>,
       << <<"I", "n", "d", "i", "a", "n", "a">>, 502 >>,
       << <<"I", "o", "w", "a">>, 380 >>,
       << <<"K", "a", "n", "s", "a", "s">>, 558 >>,
       << <<"K", "e", "n", "t", "u", "c", "k", "y">>, 620 >>,
       << <<"L", "o", "u", "i", "s", "i", "a", "n", "a">>, 300 >>,
       << <<"M", "a", "i", "n", "e">>, 715 >>,
       << <<"M", "a", "r", "y", "l", "a", "n", "d">>, 895 >>,
       << <<"M", "a", "s", "s", "a", "c", "h", "u", "s", "e", "t", "t", "s">>, 900 >>,
       << <<"M", "i", "c", "h", "i", "g", "a", "n">>, 665 >>,
       << <<"M", "i", "n", "n", "e", "s", "o", "t", "a">>, 985 >>,
       << <<"M", "i", "s", "s", "i", "s", "s", "i", "p", "p", "i">>, 440 >>,
       << <<"M", "i", "s", "s", "o", "u", "r", "i">>, 570 >>,
       << <<"M", "o", "n", "t", "a", "n", "a">>, 590 >>,
       << <<"N", "e", "b", "r", "a", "s", "k", "a">>, 520 >>,
       << <<"N", "e", "v", "a", "d", "a">>, 0 >>,
       << <<"N", "e", "w", " ", "H", "a", "m", "p", "s", "h", "i", "r", "e">>, 0 >>,
       << <<"N", "e", "w", " ", "J", "e", "r", "s", "e", "y">>, 1175 >>,
       << <<"N", "e", "w", " ", "M", "e", "x", "i", "c", "o">>, 590 >>,
       << <<"N", "e", "w", " ", "Y", "o", "r", "k">>, 1478 >>,
       << <<"N", "o", "r", "t", "h", " ", "C", "a", "r", "o", "l", "i", "n", "a">>, 425 >>,
       << <<"N", "o", "r", "t", "h", " ", "D", "a", "k", "o", "t", "a">>, 250 >>,
       << <<"O", "h", "i", "o">>, 600 >>,
       << <<"O", "k", "l", "a", "h", "o", "m", "a">>, 475 >>,
       << <<"O", "r", "e", "g", "o", "n">>, 1469 >>,
       << <<"P", "e", "n", "n", "s", "y", "l", "v", "a", "n", "i", "a">>, 686 >>,
       << <<"R", "h", "o", "d", "e", " ", "I", "s", "l", "a", "n", "d">>, 599 >>,
       << <<"S", "o", "u", "t", "h", " ", "C", "a", "r", "o", "l", "i", "n", "a">>, 620 >>,
       << <<"S", "o", "u", "t", "h", " ", "D", "a", "k", "o", "t", "a">>, 0 >>,
       << <<"T", "e", "n", "n", "e", "s", "s", "e", "e">>, 0 >>,
       << <<"T", "e", "x", "a", "s">>, 0 >>,
       << <<"U", "t", "a", "h">>, 455 >>,
       << <<"V", "e", "r", "m", "o", "n", "t">>, 875 >>,
       << <<"V", "i", "r", "g", "i", "n", "i", "a">>, 575 >>,
       << <<"W", "a", "s", "h", "i", "n", "g", "t", "o", "n">>, 0 >>,
       << <<"W", "e", "s", "t", " ", "V", "i", "r", "g", "i", "n", "i", "a">>, 482 >>,
       << <<"W", "i", "s", "c", "o", "n", "s", "i", "n">>, 765 >>,
       << <<"W", "y", "o", "m", "i", "n", "g">>, 0 >>
    >>

\* The percentages of stateTaxRates as numbers.
StateRateNumbers ==
    [ i \in 1..Len(stateTaxRates) |-> TenThousandths(100 * stateTaxRates[i][2]) ]

\* stateTaxRates[state] || 0
StateRate(state) ==
    IF \E i \in 1..Len(stateTaxRates) : stateTaxRates[i][1] = state
    THEN StateRateNumbers[CHOOSE i \in 1..Len(stateTaxRates) :
                              stateTaxRates[i][1] = state]
    ELSE Zero

\* standardDeduction[status]
standardDeduction(status) ==
    CASE status = "single"  -> 15000
      [] status = "married" -> 30000
      [] status = "head"    -> 22500

SOCIAL_SECURITY_BASE == 176100

SOCIAL_SECURITY_RATE == TenThousandths(620)     \* 0.062

MEDICARE_RATE == TenThousandths(145)            \* 0.0145

MARRIED == <<"m", "a", "r", "r", "i", "e", "d">>

HEAD == <<"h", "e", "a", "d">>

\* document.getElementById('filingStatus')?.value || 'single', for the
\* values the select offers.
StatusOf(t) ==
    CASE t = MARRIED -> "married"
      [] t = HEAD    -> "head"
      [] OTHER       -> "single"

\* hours > 0 ? hours : 0
Positive(n) == IF Less(Zero, n) THEN n ELSE Zero

\* getInputNumber('overtimeMultiplier') || 1.5
Multiplier(n) == IF Falsy(n) THEN TenThousandths(15000) ELSE n

\* (wage * baseHours * 52) + (wage * multiplier * overtimeHours * 52)
HourlyAnnual(wage, baseHours, overtimeHours, multiplier) ==
    Plus(Times(Times(wage, baseHours), Whole(52)),
         Times(Times(Times(wage, multiplier), overtimeHours), Whole(52)))

\* (baseHours + overtimeHours * multiplier) * 52
HourlyHours(baseHours, overtimeHours, multiplier) ==
    Times(Plus(baseHours, Times(overtimeHours, multiplier)), Whole(52))

\* The inputs calculateIncome reads as numbers.
IncomeInputs ==
    { "annualSalary", "hourlyWage", "hoursPerWeek", "overtimeHours",
      "overtimeMultiplier" }

\* annualSalary and totalHours, by the mode the salary radio selects, on
\* the numbers n of the inputs.
annualSalary(d, n) ==
    IF d.checked["salaryRadio"] THEN n["annualSalary"]
    ELSE HourlyAnnual(n["hourlyWage"], Positive(n["hoursPerWeek"]),
                      Positive(n["overtimeHours"]),
                      Multiplier(n["overtimeMultiplier"]))

totalHours(d, n) ==
    IF d.checked["salaryRadio"] THEN Whole(40 * 52)
    ELSE HourlyHours(Positive(n["hoursPerWeek"]), Positive(n["overtimeHours"]),
                     Multiplier(n["overtimeMultiplier"]))

\* Math.min(annualSalary, SOCIAL_SECURITY_BASE) (CappedAtBase; the variant
\* before it applies the rate to the whole salary).
Uncapped(salary) == salary

CappedAtBase(salary) == MathMin(salary, Whole(SOCIAL_SECURITY_BASE))

\* The taxes object from its four taxes.
TaxesOf(federalTax, stateTax, socialSecurityTax, medicareTax) ==
    [ federalTax        |-> federalTax,
      stateTax          |-> stateTax,
      socialSecurityTax |-> socialSecurityTax,
      medicareTax       |-> medicareTax,
      totalTax          |-> Plus(Plus(Plus(federalTax, socialSecurityTax),
                                      medicareTax), stateTax) ]

Taxes(federalTax, stateTax, socialSecurityTax, medicareTax) ==
    CHOOSE t \in
        { TaxesOf(federalTax1, stateTax1, socialSecurityTax1, medicareTax1) :
            federalTax1 \in { federalTax }, stateTax1 \in { stateTax },
            socialSecurityTax1 \in { socialSecurityTax },
            medicareTax1 \in { medicareTax } } : TRUE

\* if (netAnnual < 0) netAnnual = 0
NotBelowZero(netAnnual) == IF Less(netAnnual, Zero) THEN Zero ELSE netAnnual

\* totalHours > 0 ? amount / totalHours : 0
PerHour(amount, hours) == IF Less(Zero, hours) THEN Over(amount, hours) ELSE Zero

\* What calculateIncome returns for a salary, its hours, its taxes and what
\* they leave.
IncomeWith(salary, hours, taxes, netAnnual) ==
    [ grossAnnual   |-> salary,
      grossMonthly  |-> Over(salary, Whole(12)),
      grossBiWeekly |-> Over(salary, Whole(26)),
      grossWeekly   |-> Over(salary, Whole(52)),
      grossHourly   |-> PerHour(salary, hours),
      netAnnual     |-> netAnnual,
      netMonthly    |-> Over(netAnnual, Whole(12)),
      netBiWeekly   |-> Over(netAnnual, Whole(26)),
      netWeekly     |-> Over(netAnnual, Whole(52)),
      netHourly     |-> PerHour(netAnnual, hours),
      taxes         |-> taxes,
      effectiveTaxRate |->
          IF Less(Zero, salary) THEN Over(taxes.totalTax, salary) ELSE Zero ]

IncomeAfter(salary, hours, taxes) ==
    CHOOSE r \in
        { IncomeWith(salary, hours, taxes, netAnnual) :
            netAnnual \in { NotBelowZero(Minus(salary, taxes.totalTax)) } } : TRUE

IncomeOf(salary, hours, state, status) ==
    CHOOSE r \in
        { IncomeAfter(salary, hours, taxes) :
            taxes \in
              { Taxes(calculateFederalTax(
                          MathMax(Zero, Minus(salary, Whole(standardDeduction(status)))),
                          status),
                      Times(salary, Over(StateRate(state), Whole(100))),
                      Times(CappedAtBase(salary), SOCIAL_SECURITY_RATE),
                      Times(salary, MEDICARE_RATE)) } } : TRUE

IncomeFrom(d, n) ==
    CHOOSE r \in
        { IncomeOf(salary, hours, d.value["stateSelect"],
                   StatusOf(d.value["filingStatus"])) :
            salary \in { annualSalary(d, n) }, hours \in { totalHours(d, n) } } : TRUE

calculateIncome(d) ==
    CHOOSE r \in { IncomeFrom(d, n) : n \in { InputNumbers(d, IncomeInputs) } } : TRUE

----------------------------------------------------------------------------
(* Persisted documents and the two stores.

   A store entry is the text kept under STORAGE_KEY:
     [kind |-> "absent"]   no entry            [kind |-> "empty"]   ''
     [kind |-> "notjson"]  text JSON.parse rejects
     [kind |-> "json", parsed |-> v]  the JSON text of the value v.
   A parsed value v is [kind, theme, inputs, custom]:
     kind "null"    null, false, 0 or "" (falsy),
     kind "scalar"  a truthy value without members (5, "x", true),
     kind "object"  an object; then
       theme   "light", "dark", or "" when the member is missing,
       inputs  [kind |-> "absent" | "map", keys, checked, value]: the
               id -> value mapping, split into its entries that are
               booleans (checked) and those that are texts (value),
               whatever field the id names, and its keys in the order
               they were written,
       custom  [kind |-> "absent" | "map", cats], cats[c] being
               [kind |-> "absent" | "other" | "list", items]: missing or
               falsy, a truthy non-array, or an array of items, each
               [kind |-> "null" | "scalar" | "object", label, value].
   The cookie is [kind |-> "absent" | "badb64" | "b64", text |-> entry]:
   the store entry whose base64 encoding it holds. *)

NoFunction == [ id \in {} |-> <<>> ]

NoInputs ==
    [ kind |-> "absent", keys |-> <<>>, checked |-> NoFunction,
      value |-> NoFunction ]

NoCat == [ kind |-> "absent", items |-> <<>> ]

OtherCat == [ kind |-> "other", items |-> <<>> ]

NoCustom == [ kind |-> "absent", cats |-> [ c \in Containers |-> NoCat ] ]

NullValue ==
    [ kind |-> "null", theme |-> "", inputs |-> NoInputs, custom |-> NoCustom ]

ScalarValue ==
    [ kind |-> "scalar", theme |-> "", inputs |-> NoInputs, custom |-> NoCustom ]

Entry(kind) == [ kind |-> kind, parsed |-> NullValue ]

AbsentEntry == Entry("absent")

AbsentCookie == [ kind |-> "absent", text |-> AbsentEntry ]

\* JSON.stringify(state) and JSON.parse(text): parse gives back the value
\* stringify was given, and throws on text that is not JSON.
JSONstringify(v) == [ kind |-> "json", parsed |-> v ]

JSONparseThrows(entry) == entry.kind # "json"

JSONparse(entry) == entry.parsed

HexDigits ==
    { "0", "1", "2", "3", "4", "5", "6", "7", "8", "9",
      "A", "B", "C", "D", "E", "F" }

\* The characters btoa takes, those up to U+00FF: as they are written,
\* and by their names "U+0000" to "U+00FF".  On any other character of the
\* serialized text, the euro sign "U+20AC" or the em space "U+2003", btoa
\* throws.
Latin1Chars ==
    {
      "\t", "\n", "\r", "\f", "", " ", "!", "\"", "#", "$", "%", "&", "'", "(",
      ")", "*", "+", ",", "-", ".", "/", "0", "1", "2", "3", "4", "5", "6",
      "7", "8", "9", ":", ";", "<", "=", ">", "?", "@", "A", "B", "C", "D",
      "E", "F", "G", "H", "I", "J", "K", "L", "M", "N", "O", "P", "Q", "R",
      "S", "T", "U", "V", "W", "X", "Y", "Z", "[", "\\", "]", "^", "_",
      "a", "b", "c", "d", "e", "f", "g", "h", "i", "j", "k", "l", "m", "n",
      "o", "p", "q", "r", "s", "t", "u", "v", "w", "x", "y", "z", "{", "|",
      "}", "~", " ", "¡", "¢", "£", "¤", "¥", "¦", "§", "¨", "©", "ª", "«",
      "¬", "­", "®", "¯", "°", "±", "²", "³", "´", "µ", "¶", "·", "¸", "¹",
      "º", "»", "¼", "½", "¾", "¿", "À", "Á", "Â", "Ã", "Ä", "Å", "Æ", "Ç",
      "È", "É", "Ê", "Ë", "Ì", "Í", "Î", "Ï", "Ð", "Ñ", "Ò", "Ó", "Ô", "Õ",
      "Ö", "×", "Ø", "Ù", "Ú", "Û", "Ü", "Ý", "Þ", "ß", "à", "á", "â", "ã",
      "ä", "å", "æ", "ç", "è", "é", "ê", "ë", "ì", "í", "î", "ï", "ð", "ñ",
      "ò", "ó", "ô", "õ", "ö", "÷", "ø", "ù", "ú", "û", "ü", "ý", "þ", "ÿ" }
      \cup { "U+00" \o h \o l : h \in HexDigits, l \in HexDigits }

\* The surrogate code units, by their names "U+D800" to "U+DFFF".
HighSurrogates ==
    { "U+D" \o a \o h \o l :
        a \in { "8", "9", "A", "B" }, h \in HexDigits, l \in HexDigits }

LowSurrogates ==
    { "U+D" \o a \o h \o l :
        a \in { "C", "D", "E", "F" }, h \in HexDigits, l \in HexDigits }

\* t[i] is a surrogate that is not half of a pair (a high one followed by
\* a low one).  JSON.stringify writes it as the six ASCII characters of its
\* escape, \udXXX; everything else above U+00FF it writes as it is.
LoneSurrogate(t, i) ==
    \/ t[i] \in HighSurrogates /\ ~(i < Len(t) /\ t[i + 1] \in LowSurrogates)
    \/ t[i] \in LowSurrogates /\ ~(i > 1 /\ t[i - 1] \in HighSurrogates)

\* Whether the text t puts a character above U+00FF into the serialized
\* state.
HasNonLatin1(t) ==
    \E i \in 1..Len(t) : t[i] \notin Latin1Chars /\ ~LoneSurrogate(t, i)

\* x || fallback for a text x.
OrElse(t, fallback) == IF t = <<>> THEN fallback ELSE t

\* The line breaks U+000A and U+000D, written or named.
LineBreaks == { "\n", "\r", "U+000A", "U+000D" }

\* What input.value = t leaves in an input of type text: t without its
\* line breaks.
RECURSIVE SanitizedFrom(_, _)
SanitizedFrom(t, i) ==
    IF i > Len(t) THEN <<>>
    ELSE IF t[i] \in LineBreaks THEN SanitizedFrom(t, i + 1)
    ELSE << t[i] >> \o SanitizedFrom(t, i + 1)

Sanitized(t) ==
    IF \A i \in 1..Len(t) : t[i] \notin LineBreaks THEN t
    ELSE SanitizedFrom(t, 1)

\* readCustomRows(containerId)
readCustomRows(rs) ==
    [ i \in 1..Len(rs) |->
        [ kind  |-> "object",
          label |-> OrElse(rs[i].label, <<>>),
          value |-> OrElse(rs[i].value, <<"0">>) ] ]

\* The state object saveState builds from the page.
Snapshot(d) ==
    [ kind   |-> "object",
      theme  |-> IF d.themeLight THEN "light" ELSE "dark",
      inputs |-> [ kind |-> "map", keys |-> FieldOrder,
                   checked |-> d.checked, value |-> d.value ],
      custom |-> [ kind |-> "map",
                   cats |-> [ c \in Containers |->
                                [ kind  |-> "list",
                                  items |-> readCustomRows(d.rows[c]) ] ] ] ]

\* Whether btoa(JSON.stringify(state)) throws for the state of page d.
BtoaThrows(d) ==
    \/ \E id \in ValueIds : HasNonLatin1(d.value[id])
    \/ \E c \in Containers : \E i \in 1..Len(d.rows[c]) :
          HasNonLatin1(d.rows[c][i].label) \/ HasNonLatin1(d.rows[c][i].value)

\* saveState on page d with the stores st = [ls, cookie, autosaveStatus]:
\* the stores afterwards.  setItem throws when the store refuses the write
\* (lsFull); an exception ends saveState where it is raised.
WriteStores(serialized, st, full, btoaThrows) ==
    IF full THEN st                                   \* setItem throws
    ELSE IF btoaThrows
         THEN [ st EXCEPT !.ls = serialized ]         \* btoa throws
         ELSE [ ls     |-> serialized,
                cookie |-> [ kind |-> "b64", text |-> serialized ],
                autosaveStatus |-> "Auto-saved" ]

saveState(d, st, full) ==
    WriteStores(JSONstringify(Snapshot(d)), st, full, BtoaThrows(d))

----------------------------------------------------------------------------
(* The save timer.  ts is [saveTimer, pending]: the id saveTimer holds (0 for
   null) and the ids of the timers that are set and have not fired.  A timer
   id is never reused while it is pending or held. *)

NewTimerId(ts) ==
    CHOOSE i \in 1..(Cardinality(ts.pending) + 2) :
        /\ i \notin ts.pending \cup {ts.saveTimer}
        /\ \A j \in 1..(i - 1) : j \in ts.pending \cup {ts.saveTimer}

\* Schedules a timer only while saveTimer is still null.
queueSaveOnce(ts) ==
    IF ts.saveTimer # 0 THEN ts
    ELSE [ saveTimer |-> NewTimerId(ts), pending |-> ts.pending \cup {NewTimerId(ts)} ]

\* Schedules the new timer and leaves the earlier one set.
queueSaveNoCancel(ts) ==
    [ saveTimer |-> NewTimerId(ts), pending |-> ts.pending \cup {NewTimerId(ts)} ]

\* queueSave: clearTimeout(saveTimer); saveTimer = setTimeout(saveState, 250)
queueSave(ts) ==
    [ saveTimer |-> NewTimerId(ts),
      pending   |-> (ts.pending \ {ts.saveTimer}) \cup {NewTimerId(ts)} ]

\* n calls of queueSave in one handler.  (The result of each call is bound
\* as a value, t, before the next call is made on it.)
RECURSIVE QueueSaves(_, _)
QueueSaves(ts, n) ==
    IF n = 0 THEN ts
    ELSE CHOOSE r \in { QueueSaves(t, n - 1) : t \in {queueSave(ts)} } : TRUE

----------------------------------------------------------------------------
(* Custom rows: addCustomItem, restoreCustomItems *)

\* The data addCustomItem uses when it is called with a container alone.
DefaultItem == [ kind |-> "object", label |-> <<>>, value |-> <<"0">> ]

\* addCustomItem reads data.label: a TypeError when data is null.
addCustomItemThrows(data) == data.kind = "null"

\* The row addCustomItem appends for data: label data.label || '', value
\* data.value || '0' as formatInputValue leaves it, each as the text input
\* it is assigned to takes it.
CustomRow(data) ==
    [ label |-> Sanitized(OrElse(data.label, <<>>)),
      value |-> formatInputValue(Sanitized(OrElse(data.value, <<"0">>))) ]

\* items.forEach(item => addCustomItem(containerId, item)) from item i on,
\* onto the rows rs: [rows, threw, queued], queued counting the queueSave
\* calls (one per row added, by its recalculate).
RECURSIVE AddItemsReversed(_, _, _, _)
RECURSIVE AddItems(_, _, _, _)
\* (The variant puts each new row before the rows already there.)
AddItemsReversed(rs, items, i, queued) ==
    IF i > Len(items) THEN [ rows |-> rs, threw |-> FALSE, queued |-> queued ]
    ELSE IF addCustomItemThrows(items[i])
         THEN [ rows |-> rs, threw |-> TRUE, queued |-> queued ]
         ELSE AddItemsReversed(<< CustomRow(items[i]) >> \o rs, items, i + 1,
                               queued + 1)

AddItems(rs, items, i, queued) ==
    IF i > Len(items) THEN [ rows |-> rs, threw |-> FALSE, queued |-> queued ]
    ELSE IF addCustomItemThrows(items[i])
         THEN [ rows |-> rs, threw |-> TRUE, queued |-> queued ]
         ELSE AddItems(Append(rs, CustomRow(items[i])), items, i + 1, queued + 1)

\* state?.custom?.[containerId]
SavedCat(state, containerId) ==
    IF state.custom.kind = "map" THEN state.custom.cats[containerId] ELSE NoCat

\* What the container's rows become: emptied first, or left as they were.
MergedInto(old) == old

ClearedContainer(old) == <<>>

\* restoreCustomItems(state) from container k of CUSTOM_CONTAINERS on, on
\* the rows map rows: [rows, threw, queued].  RestoredCat takes up r, the
\* outcome of adding the items of container c.
RECURSIVE RestoreFrom(_, _, _, _)
RestoredCat(rows, state, k, c, r) ==
    IF r.threw
    THEN [ rows   |-> [ rows EXCEPT ![c] = r.rows ],
           threw  |-> TRUE,
           queued |-> r.queued ]
    ELSE CHOOSE res \in
             { RestoreFrom(next, state, k + 1, r.queued) :
                 next \in { [ rows EXCEPT ![c] = r.rows ] } } :
             TRUE

RestoreCat(rows, queued, state, k, c, cat) ==
    IF cat.kind = "other"                  \* items.forEach is not a function
    THEN [ rows   |-> [ rows EXCEPT ![c] = ClearedContainer(rows[c]) ],
           threw  |-> TRUE,
           queued |-> queued ]
    ELSE CHOOSE res \in
             { RestoredCat(rows, state, k, c, r) :
                 r \in { AddItems(ClearedContainer(rows[c]), cat.items, 1, queued) } } :
             TRUE

RestoreFrom(rows, state, k, queued) ==
    IF k > Len(CUSTOM_CONTAINERS)
    THEN [ rows |-> rows, threw |-> FALSE, queued |-> queued ]
    ELSE RestoreCat(rows, queued, state, k, CUSTOM_CONTAINERS[k],
                    SavedCat(state, CUSTOM_CONTAINERS[k]))

restoreCustomItems(rows, state) == RestoreFrom(rows, state, 1, 0)

----------------------------------------------------------------------------
(* loadState *)

\* A value JavaScript takes as true in `if (!stateData)`.
Truthy(v) == v.kind \in {"scalar", "object"}

\* JSON.parse(stored) under try/catch: null when it throws.
ParsedOrNull(entry) ==
    IF JSONparseThrows(entry) THEN NullValue ELSE JSONparse(entry)

\* What loadState reads from the primary store: null unless `if (stored)`.
FromStore(ls) ==
    IF ls.kind \in {"absent", "empty"} THEN NullValue ELSE ParsedOrNull(ls)

\* What it reads from the cookie: null when there is none or atob throws.
FromCookie(cookie) ==
    IF cookie.kind \in {"absent", "badb64"} THEN NullValue
    ELSE ParsedOrNull(cookie.text)

\* The second part of the selection: the cookie is looked up only when the
\* primary store gave nothing (Selected; the variant before it never looks
\* the cookie up).
SelectedNoFallback(fromStore, cookie) ==
    [ stateData |-> fromStore, cookieRead |-> FALSE ]

Selected(fromStore, cookie) ==
    IF Truthy(fromStore)
    THEN [ stateData |-> fromStore, cookieRead |-> FALSE ]
    ELSE [ stateData |-> FromCookie(cookie), cookieRead |-> TRUE ]

\* The first part of loadState: the document it selects.  stateData is the
\* selected value (NullValue for null) and cookieRead tells whether the
\* cookie was looked up.
SelectStateData(ls, cookie) == Selected(FromStore(ls), cookie)

\* The options populateStates gives #stateSelect: the keys of stateTaxRates.
StateOptions == { stateTaxRates[i][1] : i \in 1..Len(stateTaxRates) }

\* The values the options of each select have.  stateSelect has the keys of
\* stateTaxRates; the options of the others are in the markup.
SelectOptions(id) ==
    CASE id = "stateSelect"  -> StateOptions
      [] id = "filingStatus" -> { <<"s", "i", "n", "g", "l", "e">>, MARRIED, HEAD }
      [] id = "housingType"  -> { <<"r", "e", "n", "t">>, MORTGAGE }
      [] id = "autoInsurancePeriod" -> { <<"1">>, <<"6">>, <<"1", "2">> }

\* What el.value = t leaves in field id: a select takes a value only when
\* one of its options has it, and reads '' otherwise; a text input takes t
\* without its line breaks.
Assigned(id, t) ==
    IF id \in SelectIds
    THEN IF t \in SelectOptions(id) THEN t ELSE <<>>
    ELSE Sanitized(t)

\* el.checked = on: checking a radio unchecks the other radio of its group.
Checked(d, id, on) ==
    IF on /\ id \in IncomeRadios
    THEN [ d EXCEPT !.checked = [ j \in CheckIds |->
                                    IF j \in IncomeRadios THEN j = id
                                    ELSE d.checked[j] ] ]
    ELSE [ d EXCEPT !.checked[id] = on ]

\* !!value for the entry of id: a boolean is itself, a text is true
\* unless it is ''.
EntryFlag(inputs, id) ==
    IF id \in DOMAIN inputs.checked THEN inputs.checked[id]
    ELSE inputs.value[id] # <<>>

\* The entry of id as the text el.value = value assigns: a text is itself,
\* a boolean is "true" or "false".
EntryText(inputs, id) ==
    IF id \in DOMAIN inputs.value THEN inputs.value[id]
    ELSE IF inputs.checked[id] THEN <<"t", "r", "u", "e">>
    ELSE <<"f", "a", "l", "s", "e">>

\* One entry [id, value] of stateData.inputs written into the page; an id
\* that names no field is passed over.  The type of the field decides what
\* is written, not the type of the value.
RestoredEntry(d, id, inputs) ==
    IF id \in CheckIds THEN Checked(d, id, EntryFlag(inputs, id))
    ELSE IF id \in ValueIds
         THEN [ d EXCEPT !.value[id] = Assigned(id, EntryText(inputs, id)) ]
         ELSE d

\* Object.entries(stateData.inputs || {}).forEach(...) from entry i on, in
\* the order of the keys.
RECURSIVE RestoreEntries(_, _, _)
RestoreEntries(d, inputs, i) ==
    IF i > Len(inputs.keys) THEN d
    ELSE CHOOSE res \in
             { RestoreEntries(d1, inputs, i + 1) :
                 d1 \in { RestoredEntry(d, inputs.keys[i], inputs) } } : TRUE

restoreInputs(d, inputs) == RestoreEntries(d, inputs, 1)

\* formatAllInputs: formatInputValue on every element carrying data-format.
formatRows(rs) ==
    [ i \in 1..Len(rs) |-> [ rs[i] EXCEPT !.value = formatInputValue(rs[i].value) ] ]

formatAllInputs(d) ==
    [ d EXCEPT
        !.value = [ id \in ValueIds |->
                      IF id \in FormatIds THEN formatInputValue(d.value[id])
                      ELSE d.value[id] ],
        !.rows  = [ c \in Containers |-> formatRows(d.rows[c]) ] ]

\* loadTheme(state): theme = state?.theme || 'dark'; light only for 'light'.
loadTheme(d, state) == [ d EXCEPT !.themeLight = (state.theme = "light") ]

\* The rest of loadState once the inputs are restored (page d1) and
\* restoreCustomItems has ended with r.
Restored(d1, st, r) ==
    IF r.threw
    THEN [ dom |-> [ d1 EXCEPT !.rows = r.rows ], threw |-> TRUE,
           queued |-> r.queued ]
    ELSE [ dom |-> formatAllInputs(loadTheme([ d1 EXCEPT !.rows = r.rows ], st)),
           threw |-> FALSE,
           \* setTheme, the three toggles and recalculate call queueSave
           queued |-> r.queued + 5 ]

RestoreInto(d1, st) ==
    CHOOSE res \in
        { Restored(d1, st, r) : r \in { restoreCustomItems(d1.rows, st) } } : TRUE

\* loadState on page d for the selected document st: [dom, threw, queued].
\* queued counts its queueSave calls; threw tells that an exception left it
\* (out of restoreCustomItems) with the page as it was at that point.
Restore(d, st) ==
    IF ~Truthy(st) THEN [ dom |-> d, threw |-> FALSE, queued |-> 0 ]
    ELSE CHOOSE res \in
             { RestoreInto(d1, st) : d1 \in { restoreInputs(d, st.inputs) } } :
             TRUE

loadState(d, ls, cookie) ==
    CHOOSE res \in
        { Restore(d, sel.stateData) : sel \in { SelectStateData(ls, cookie) } } :
        TRUE

----------------------------------------------------------------------------
(* Bounds and the inputs the events draw from *)

MaxEvents == 3      \* user events in one behaviour
MaxRows == 2        \* custom rows in one container

TypedIds == { "annualSalary" }
TypedTexts == { <<"5">>, <<"1", "2", "3", "4", ".", "5">> }
ChangedSelects == { "housingType", "autoInsurancePeriod" }
SelectTexts == { MORTGAGE, <<"r", "e", "n", "t">>, <<"1">>, <<"1", "2">> }
ClickedCheckboxes == { "vehicleCheckbox" }
ClickedRadios == { "salaryRadio", "hourlyRadio" }
RowContainers == { "housingExtras" }
LabelTexts == { <<"a">>, <<"U+20AC">> }
RowValueTexts == { <<>>, <<"5">> }

----------------------------------------------------------------------------
(* State *)

VARIABLES
    phase,          \* "loading": parsed, DOMContentLoaded not yet dispatched;
                    \* "ready"; "reloading": reload() called, the document
                    \* still active until the navigation commits
    dom,            \* the page's fields and custom rows
    autosaveStatus, \* text of #autosaveStatus
    saveTimer,      \* the variable saveTimer (0: null)
    pending,        \* timers set and not yet fired or cleared
    ls,             \* localStorage entry under STORAGE_KEY
    cookie,         \* the cookie COOKIE_KEY
    lsFull,         \* localStorage.setItem throws (quota, storage disabled)
    savedDom,       \* the page as it was when saveState last wrote ls
    rowsBefore,     \* the rows restoreCustomItems last started from
    stateData,      \* the document the last loadState selected
    cookieRead,     \* whether the last loadState looked the cookie up
    loadThrew,      \* whether the last loadState ended by an exception
    cleared,        \* the reload in progress was started by clearSavedState
    lastOp,         \* the operation that ran last
    nEvents,        \* user events so far
    taxStatus, taxableIncome,   \* the arguments of calculateFederalTax
    federalTax,     \* [computed, tax]: its result, once it has been called
    expenses,       \* [computed, totals]: the result of calculateExpenses
    income          \* [computed, result]: the result of calculateIncome

vars == << phase, dom, autosaveStatus, saveTimer, pending, ls, cookie, lsFull,
           savedDom, rowsBefore, stateData, cookieRead, loadThrew, cleared, lastOp, nEvents,
           taxStatus, taxableIncome, federalTax, expenses, income >>

taxVars == << taxStatus, taxableIncome, federalTax >>

pageVars ==
    << phase, dom, autosaveStatus, saveTimer, pending, ls, cookie, lsFull,
       savedDom, rowsBefore, stateData, cookieRead, loadThrew, cleared, lastOp,
       nEvents >>

TimerState == [ saveTimer |-> saveTimer, pending |-> pending ]

Stores == [ ls |-> ls, cookie |-> cookie, autosaveStatus |-> autosaveStatus ]

\* The state of a page just parsed, with the given store contents.
PageInit(store, cook) ==
    /\ phase = "loading"
    /\ dom = DefaultDom
    /\ autosaveStatus = ""
    /\ saveTimer = 0
    /\ pending = {}
    /\ ls = store
    /\ cookie = cook
    /\ savedDom = DefaultDom
    /\ rowsBefore = DefaultDom.rows
    /\ stateData = NullValue
    /\ cookieRead = FALSE
    /\ loadThrew = FALSE
    /\ cleared = FALSE
    /\ lastOp = "parse"
    /\ nEvents = 0

NothingSpent ==
    TotalsWith(Zero, Zero, Zero, Zero, Zero, Zero, Zero, Zero, Zero)

NothingEarned ==
    [ grossAnnual |-> Zero, grossMonthly |-> Zero, grossBiWeekly |-> Zero,
      grossWeekly |-> Zero, grossHourly |-> Zero, netAnnual |-> Zero,
      netMonthly |-> Zero, netBiWeekly |-> Zero, netWeekly |-> Zero,
      netHourly |-> Zero,
      taxes |-> [ federalTax |-> Zero, stateTax |-> Zero,
                  socialSecurityTax |-> Zero, medicareTax |-> Zero,
                  totalTax |-> Zero ],
      effectiveTaxRate |-> Zero ]

EnginesIdle ==
    /\ taxStatus = "single"
    /\ taxableIncome = Zero
    /\ federalTax = [ computed |-> FALSE, tax |-> Zero ]
    /\ expenses = [ computed |-> FALSE, totals |-> NothingSpent ]
    /\ income = [ computed |-> FALSE, result |-> NothingEarned ]

\* First visit: nothing saved yet.
Init ==
    /\ PageInit(AbsentEntry, AbsentCookie)
    /\ lsFull \in BOOLEAN
    /\ EnginesIdle

----------------------------------------------------------------------------
(* Page start and the save timer *)

\* The DOMContentLoaded handler: populateStates, wireInputs,
\* formatAllInputs, the three toggles (a recalculate and so a queueSave
\* each), loadState, recalculate, registerServiceWorker.  An exception out of
\* loadState ends the handler there.
SetTimers(ts) == saveTimer' = ts.saveTimer /\ pending' = ts.pending

Loaded(L) ==
    /\ dom' = L.dom
    /\ loadThrew' = L.threw
    /\ \E ts \in { QueueSaves(TimerState,
                              3 + L.queued + (IF L.threw THEN 0 ELSE 1)) } :
          SetTimers(ts)

Selecting(sel) ==
    /\ stateData' = sel.stateData
    /\ cookieRead' = sel.cookieRead

DOMContentLoaded ==
    /\ phase = "loading"
    /\ \E sel \in { SelectStateData(ls, cookie) } : Selecting(sel)
    /\ \E d0 \in { formatAllInputs(dom) } :
          \E L \in { loadState(d0, ls, cookie) } : Loaded(L)
    /\ phase' = "ready"
    /\ autosaveStatus' = "Saving"
    /\ lastOp' = "DOMContentLoaded"
    /\ rowsBefore' = dom.rows
    /\ UNCHANGED << ls, cookie, lsFull, savedDom, cleared, nEvents, taxVars,
                    expenses, income >>

Saved(st) ==
    /\ ls' = st.ls
    /\ cookie' = st.cookie
    /\ autosaveStatus' = st.autosaveStatus

\* A pending timer fires and runs saveState.  The timers of a document stay
\* live until the document is unloaded, so also while a reload is under way.
SaveFire ==
    /\ phase \in {"ready", "reloading"}
    /\ \E id \in pending :
         /\ pending' = pending \ {id}
         /\ \E st \in { saveState(dom, Stores, lsFull) } : Saved(st)
    /\ savedDom' = IF lsFull THEN savedDom ELSE dom
    /\ lastOp' = "saveState"
    /\ UNCHANGED << phase, dom, saveTimer, lsFull, rowsBefore, stateData,
                    cookieRead, loadThrew, cleared, nEvents, taxVars, expenses, income >>

\* A handler that changes the page to d and calls queueSave n times.  The
\* listeners of a document stay attached until the document is unloaded, so
\* they also run while a reload is under way.
Handle(d, n, op) ==
    /\ phase \in {"ready", "reloading"}
    /\ nEvents < MaxEvents
    /\ nEvents' = nEvents + 1
    /\ dom' = d
    /\ \E ts \in { QueueSaves(TimerState, n) } : SetTimers(ts)
    /\ autosaveStatus' = "Saving"
    /\ lastOp' = op
    /\ UNCHANGED << phase, ls, cookie, lsFull, savedDom, rowsBefore, stateData,
                    cookieRead, loadThrew, cleared, taxVars, expenses, income >>

----------------------------------------------------------------------------
(* User events on a page whose DOMContentLoaded handler has run.  Each is
   the whole handler of the event. *)

SetValue(d, id, t) == [ d EXCEPT !.value[id] = t ]

SetRow(d, c, i, row) == [ d EXCEPT !.rows[c][i] = row ]

RemoveAt(rs, i) == SubSeq(rs, 1, i - 1) \o SubSeq(rs, i + 1, Len(rs))

\* 'input' on a data-format field: recalculate.
InputField ==
    \E id \in TypedIds, t \in TypedTexts :
        Handle(SetValue(dom, id, t), 1, "input")

\* 'blur' on a data-format field: formatInputValue, recalculate.
BlurField ==
    \E id \in TypedIds :
        Handle(SetValue(dom, id, formatInputValue(dom.value[id])), 1, "blur")

\* 'change' on a select, the user having chosen another option: the
\* listener recalculate (added twice to autoInsurancePeriod, and so
\* registered once) and, on housingType, togglePropertyTax with its own
\* recalculate before it.
ChangeSelect ==
    \E id \in ChangedSelects, t \in SelectTexts :
        /\ t \in SelectOptions(id)
        /\ t # dom.value[id]
        /\ Handle(SetValue(dom, id, t),
                  IF id = "housingType" THEN 2 ELSE 1,
                  "change")

\* 'change' on a travel checkbox: toggleTravelSections.
ClickCheckbox ==
    \E id \in ClickedCheckboxes :
        Handle([ dom EXCEPT !.checked[id] = ~dom.checked[id] ], 1, "change")

\* 'change' on the radio that becomes checked: toggleIncomeInputs.
ClickRadio ==
    \E id \in ClickedRadios :
        /\ ~dom.checked[id]
        /\ Handle([ dom EXCEPT
                      !.checked = [ j \in CheckIds |->
                          IF j \in IncomeRadios
                          THEN j = id ELSE dom.checked[j] ] ],
                  1, "change")

\* addCustomItem(containerId) from the page's add button.
AddCustomItem ==
    \E c \in RowContainers :
        /\ Len(dom.rows[c]) < MaxRows
        /\ Handle([ dom EXCEPT !.rows[c] = Append(@, CustomRow(DefaultItem)) ],
                  1, "addCustomItem")

\* Remove button of a row: removeChild, recalculate.
RemoveRow ==
    \E c \in RowContainers : \E i \in 1..Len(dom.rows[c]) :
        Handle([ dom EXCEPT !.rows[c] = RemoveAt(@, i) ], 1, "remove")

\* 'input' on a row's label: queueSave.
InputLabel ==
    \E c \in RowContainers : \E i \in 1..Len(dom.rows[c]) : \E t \in LabelTexts :
        Handle(SetRow(dom, c, i, [ dom.rows[c][i] EXCEPT !.label = t ]),
               1, "input")

\* 'input' on a row's value: recalculate.
InputRowValue ==
    \E c \in RowContainers : \E i \in 1..Len(dom.rows[c]) : \E t \in RowValueTexts :
        Handle(SetRow(dom, c, i, [ dom.rows[c][i] EXCEPT !.value = t ]),
               1, "input")

\* 'blur' on a row's value: formatInputValue, recalculate.
BlurRowValue ==
    \E c \in RowContainers : \E i \in 1..Len(dom.rows[c]) :
        Handle(SetRow(dom, c, i,
                      [ dom.rows[c][i] EXCEPT !.value = formatInputValue(@) ]),
               1, "blur")

\* Click on #themeToggle: setTheme(nextTheme).
ToggleTheme ==
    Handle([ dom EXCEPT !.themeLight = ~dom.themeLight ], 1, "setTheme")

\* clearSavedState: both stores emptied, reload() called.  saveTimer is left
\* as it is.
clearSavedState ==
    /\ phase \in {"ready", "reloading"}
    /\ nEvents < MaxEvents
    /\ nEvents' = nEvents + 1
    /\ ls' = AbsentEntry
    /\ cookie' = AbsentCookie
    /\ phase' = "reloading"
    /\ cleared' = TRUE
    /\ lastOp' = "clearSavedState"
    /\ UNCHANGED << dom, autosaveStatus, saveTimer, pending, lsFull, savedDom,
                    rowsBefore, stateData, cookieRead, loadThrew, taxVars,
                    expenses, income >>

\* The user reloads the page (a reload already under way goes on).
Reload ==
    /\ phase \in {"ready", "reloading"}
    /\ nEvents < MaxEvents
    /\ nEvents' = nEvents + 1
    /\ phase' = "reloading"
    /\ cleared' = (phase = "reloading" /\ cleared)
    /\ lastOp' = "reload"
    /\ UNCHANGED << dom, autosaveStatus, saveTimer, pending, ls, cookie, lsFull,
                    savedDom, rowsBefore, stateData, cookieRead, loadThrew,
                    taxVars, expenses, income >>

\* The navigation commits: the old document and its timers are gone, the
\* new one is parsed.
Unload ==
    /\ phase = "reloading"
    /\ phase' = "loading"
    /\ dom' = DefaultDom
    /\ autosaveStatus' = ""
    /\ saveTimer' = 0
    /\ pending' = {}
    /\ lastOp' = "parse"
    /\ UNCHANGED << ls, cookie, lsFull, savedDom, rowsBefore, stateData,
                    cookieRead, loadThrew, cleared, nEvents, taxVars, expenses, income >>

Next ==
    \/ DOMContentLoaded
    \/ SaveFire
    \/ InputField
    \/ BlurField
    \/ ChangeSelect
    \/ ClickCheckbox
    \/ ClickRadio
    \/ AddCustomItem
    \/ RemoveRow
    \/ InputLabel
    \/ InputRowValue
    \/ BlurRowValue
    \/ ToggleTheme
    \/ clearSavedState
    \/ Reload
    \/ Unload

Spec == Init /\ [][Next]_vars

\* The browser runs a timer that is due, commits a navigation it has
\* started and dispatches DOMContentLoaded to a parsed document.
FairSpec ==
    Spec /\ WF_vars(SaveFire) /\ WF_vars(Unload) /\ WF_vars(DOMContentLoaded)

----------------------------------------------------------------------------
(* Page start on stores of any content: the entry and the cookie are drawn
   from absent, empty, not JSON, invalid base64, and JSON of every shape
   loadState tells apart. *)

\* A page with a typed salary, hourly mode, the light theme and a custom row.
SomePage ==
    [ DefaultDom EXCEPT
        !.checked["salaryRadio"] = FALSE,
        !.checked["hourlyRadio"] = TRUE,
        !.value["annualSalary"] = <<"5">>,
        !.rows["housingExtras"] = << [ label |-> <<"a">>, value |-> <<"5", ".", "0", "0">> ] >>,
        !.themeLight = TRUE ]

\* Another page: a mortgage and a custom row under additionalExpenses.
OtherPage ==
    [ DefaultDom EXCEPT
        !.value["housingType"] = MORTGAGE,
        !.rows["additionalExpenses"] = << [ label |-> <<>>, value |-> <<"0", ".", "0", "0">> ] >> ]

\* {} : an object without members.
EmptyObject ==
    [ kind |-> "object", theme |-> "", inputs |-> NoInputs, custom |-> NoCustom ]

\* An object whose custom member holds cat under housingExtras.
WithHousingExtras(cat) ==
    [ EmptyObject EXCEPT
        !.custom = [ kind |-> "map",
                     cats |-> [ c \in Containers |->
                                  IF c = "housingExtras" THEN cat ELSE NoCat ] ] ]

NullItem == [ kind |-> "null", label |-> <<>>, value |-> <<>> ]

\* {"custom":{"housingExtras":5}} and {"custom":{"housingExtras":[null]}}
BadCatDoc == WithHousingExtras(OtherCat)

NullItemDoc == WithHousingExtras([ kind |-> "list", items |-> << NullItem >> ])

\* A document not written by saveState:
\* {"inputs":{"salaryRadio":true,"hourlyRadio":true,"housingType":"castle",
\*            "autoInsurancePeriod":"7","nothing":"x","vehicleCheckbox":"x",
\*            "rideShareCheckbox":"","annualSalary":true,
\*            "hoursPerWeek":"4\n0","filingStatus":false},
\*  "custom":{"housingExtras":[{"label":"a\nb","value":"5"}]}}
ForeignDoc ==
    [ EmptyObject EXCEPT
        !.inputs = [ kind    |-> "map",
                     keys    |-> << "salaryRadio", "hourlyRadio", "housingType",
                                    "autoInsurancePeriod", "nothing",
                                    "vehicleCheckbox", "rideShareCheckbox",
                                    "annualSalary", "hoursPerWeek",
                                    "filingStatus" >>,
                     checked |-> [ id \in IncomeRadios
                                          \cup { "annualSalary", "filingStatus" } |->
                                     id # "filingStatus" ],
                     value   |-> [ id \in { "housingType", "autoInsurancePeriod",
                                            "nothing", "vehicleCheckbox",
                                            "rideShareCheckbox", "hoursPerWeek" } |->
                                     CASE id = "housingType" ->
                                            <<"c", "a", "s", "t", "l", "e">>
                                       [] id = "autoInsurancePeriod" -> <<"7">>
                                       [] id = "rideShareCheckbox" -> <<>>
                                       [] id = "hoursPerWeek" -> <<"4", "\n", "0">>
                                       [] OTHER -> <<"x">> ] ],
        !.custom = [ kind |-> "map",
                     cats |-> [ c \in Containers |->
                                  IF c = "housingExtras"
                                  THEN [ kind  |-> "list",
                                         items |-> << [ kind  |-> "object",
                                                        label |-> <<"a", "\n", "b">>,
                                                        value |-> <<"5">> ] >> ]
                                  ELSE NoCat ] ] ]

\* The page loadState leaves from ForeignDoc: the radio written last is the
\* one checked, the checkbox given "x" is checked and the one given '' is
\* not, the selects, offering no such option, read '', the salary given
\* true reads "true" and is formatted as 0, and the line breaks are gone.
ForeignPage ==
    [ DefaultDom EXCEPT !.checked["salaryRadio"] = FALSE,
                        !.checked["hourlyRadio"] = TRUE,
                        !.checked["vehicleCheckbox"] = TRUE,
                        !.value["housingType"] = <<>>,
                        !.value["autoInsurancePeriod"] = <<>>,
                        !.value["filingStatus"] = <<>>,
                        !.value["annualSalary"] = <<"0", ".", "0", "0">>,
                        !.value["hoursPerWeek"] = <<"4", "0", ".", "0", "0">>,
                        !.rows["housingExtras"] =
                            << [ label |-> <<"a", "b">>,
                                 value |-> <<"5", ".", "0", "0">> ] >> ]

LoadEntries ==
    { Entry("absent"), Entry("empty"), Entry("notjson"),
      JSONstringify(NullValue), JSONstringify(ScalarValue),
      JSONstringify(EmptyObject), JSONstringify(Snapshot(SomePage)),
      JSONstringify(BadCatDoc), JSONstringify(NullItemDoc),
      JSONstringify(ForeignDoc) }

LoadCookies ==
    { AbsentCookie, [ kind |-> "badb64", text |-> AbsentEntry ] }
      \cup { [ kind |-> "b64", text |-> e ] :
               e \in { Entry("empty"), Entry("notjson"), JSONstringify(NullValue),
                       JSONstringify(Snapshot(OtherPage)),
                       JSONstringify(BadCatDoc) } }

InitLoad ==
    /\ \E store \in LoadEntries, cook \in LoadCookies : PageInit(store, cook)
    /\ lsFull = FALSE
    /\ EnginesIdle

NextLoad ==
    \/ DOMContentLoaded
    \/ SaveFire
    \/ Reload
    \/ Unload

SpecLoad == InitLoad /\ [][NextLoad]_vars

----------------------------------------------------------------------------
(* saveState on a page the user has filled in, and page start on what it
   wrote: pages with up to MaxRows rows in a container, in every order, with
   typed values not yet formatted and labels btoa accepts or rejects *)

RowX == [ label |-> <<"a">>, value |-> <<"5", ".", "0", "0">> ]

RowY == [ label |-> <<>>, value |-> <<"0", ".", "0", "0">> ]

\* A row whose value was typed and not left yet.
RowTyped == [ label |-> <<"b">>, value |-> <<"5">> ]

\* A row whose value was emptied and whose label btoa rejects.
RowEuro == [ label |-> <<"U+20AC">>, value |-> <<>> ]

\* A row whose label ends in half of a surrogate pair.
RowLone == [ label |-> <<"x", "U+D83D">>, value |-> <<"0", ".", "0", "0">> ]

\* Sequences over S of length at most n.
SeqsUpTo(S, n) == UNION { [ 1..k -> S ] : k \in 0..n }

RoundTripPages ==
    { [ DefaultDom EXCEPT
          !.checked["salaryRadio"] = ~hourly,
          !.checked["hourlyRadio"] = hourly,
          !.checked["vehicleCheckbox"] = hourly,
          !.value["annualSalary"] = salary,
          !.value["housingType"] = IF light THEN MORTGAGE ELSE @,
          !.value["autoInsurancePeriod"] = IF hourly THEN <<"1", "2">> ELSE @,
          !.rows["housingExtras"] = h,
          !.rows["additionalExpenses"] = a,
          !.themeLight = light ] :
        hourly \in BOOLEAN, light \in BOOLEAN,
        salary \in { <<>>, <<"5">> },
        h \in SeqsUpTo({ RowX, RowTyped, RowEuro }, MaxRows),
        a \in { <<>>, << RowLone >> } }

\* A first visit on which the user has brought the page to one of these:
\* the last handler has queued a save and nothing is stored yet.
InitRoundTrip ==
    /\ dom \in RoundTripPages
    /\ phase = "ready"
    /\ autosaveStatus = "Saving"
    /\ saveTimer = 1
    /\ pending = {1}
    /\ ls = AbsentEntry
    /\ cookie = AbsentCookie
    /\ lsFull = FALSE
    /\ savedDom = DefaultDom
    /\ rowsBefore = DefaultDom.rows
    /\ stateData = NullValue
    /\ cookieRead = FALSE
    /\ loadThrew = FALSE
    /\ cleared = FALSE
    /\ lastOp = "input"
    /\ nEvents = 0
    /\ EnginesIdle

NextRoundTrip ==
    \/ SaveFire
    \/ Reload
    \/ Unload
    \/ DOMContentLoaded

SpecRoundTrip == InitRoundTrip /\ [][NextRoundTrip]_vars

----------------------------------------------------------------------------
(* restoreCustomItems applied to a page that already has rows *)

ItemA == [ kind |-> "object", label |-> <<"a">>, value |-> <<"5">> ]

ItemB == [ kind |-> "object", label |-> <<>>, value |-> <<>> ]

\* {"label":"\u20ac\nc","value":"1,234.50"}
ItemC ==
    [ kind |-> "object", label |-> <<"U+20AC", "\n", "c">>,
      value |-> <<"1", ",", "2", "3", "4", ".", "5", "0">> ]

ExistingRows ==
    { [ DefaultDom.rows EXCEPT !["housingExtras"] = h,
                               !["vehicleExtras"] = v,
                               !["additionalExpenses"] = a ] :
        h \in SeqsUpTo({RowX, RowY}, MaxRows),
        v \in { <<>>, << RowY >> },
        a \in { <<>>, << RowX >> } }

ListCat(items) == [ kind |-> "list", items |-> items ]

\* Documents of the persisted format, and documents one of whose categories
\* is not a list (5) or lists a null among its items.
RestoreDocs ==
    { NullValue, EmptyObject, BadCatDoc, NullItemDoc }
      \cup { [ EmptyObject EXCEPT
                 !.custom = [ kind |-> "map",
                              cats |-> [ c \in Containers |->
                                           CASE c = "housingExtras" -> h
                                             [] c = "utilitiesExtras" -> u
                                             [] c = "additionalExpenses" -> a
                                             [] OTHER -> NoCat ] ] ] :
               h \in { ListCat(<<>>), ListCat(<< ItemA >>),
                       ListCat(<< ItemA, ItemB >>), ListCat(<< ItemB, ItemA >>),
                       ListCat(<< ItemA, NullItem, ItemB >>) },
               u \in { NoCat, OtherCat },
               a \in { NoCat, ListCat(<< ItemC >>) } }

\* A page about to start whose containers already hold rows, with the
\* document at hand in stateData.
InitRestore ==
    /\ \E pre \in ExistingRows, st \in RestoreDocs :
         /\ phase = "loading"
         /\ dom = [ DefaultDom EXCEPT !.rows = pre ]
         /\ stateData = st
         /\ rowsBefore = pre
    /\ autosaveStatus = ""
    /\ saveTimer = 0
    /\ pending = {}
    /\ ls = AbsentEntry
    /\ cookie = AbsentCookie
    /\ lsFull = FALSE
    /\ savedDom = DefaultDom
    /\ cookieRead = FALSE
    /\ loadThrew = FALSE
    /\ cleared = FALSE
    /\ lastOp = "parse"
    /\ nEvents = 0
    /\ EnginesIdle

\* restoreCustomItems(stateData) on that page; each row added queues a save
\* (addCustomItem's recalculate).
RestoreCustomItems ==
    /\ phase = "loading"
    /\ \E r \in { restoreCustomItems(dom.rows, stateData) } :
         /\ dom' = [ dom EXCEPT !.rows = r.rows ]
         /\ loadThrew' = r.threw
         /\ autosaveStatus' = IF r.queued > 0 THEN "Saving" ELSE autosaveStatus
         /\ \E ts \in { QueueSaves(TimerState, r.queued) } : SetTimers(ts)
    /\ rowsBefore' = dom.rows
    /\ phase' = "ready"
    /\ lastOp' = "restoreCustomItems"
    /\ UNCHANGED << ls, cookie, lsFull, savedDom, stateData, cookieRead,
                    cleared, nEvents, taxVars, expenses, income >>

NextRestore ==
    \/ RestoreCustomItems
    \/ SaveFire

SpecRestore == InitRestore /\ [][NextRestore]_vars

----------------------------------------------------------------------------
(* calculateExpenses applied to pages with every combination of the travel
   checkboxes and of stored travel values *)

TravelCheckboxes ==
    { "vehicleCheckbox", "publicTransportCheckbox", "rideShareCheckbox",
      "miscTravelCheckbox" }

AMOUNT == <<"3", "0", "0", ".", "5", "0">>

YEARLY == <<"1", ",", "2", "0", "0", ".", "0", "0">>

NoRowOrOne == { <<>>, << RowX >> }

ExpensePages ==
    { [ DefaultDom EXCEPT
          !.checked = [ id \in CheckIds |->
                          IF id \in TravelCheckboxes THEN id \in on
                          ELSE DefaultDom.checked[id] ],
          !.value["housingAmount"] = YEARLY,
          !.value["vehiclePayment"] = pay,
          !.value["fuelCosts"] = pay,
          !.value["autoInsuranceAmount"] = ins,
          !.value["autoInsurancePeriod"] = per,
          !.rows["vehicleExtras"] = xs,
          !.rows["publicTransportExtras"] = xs,
          !.rows["rideShareExtras"] = xs,
          !.rows["miscTravelExtras"] = xs ] :
        on  \in SUBSET TravelCheckboxes,
        pay \in { <<>>, AMOUNT },
        ins \in { <<>>, YEARLY },
        per \in { <<"1">>, <<"1", "2">> },
        xs  \in NoRowOrOne }

InitExpenses ==
    /\ \E d \in ExpensePages :
         /\ phase = "ready"
         /\ dom = d
         /\ savedDom = DefaultDom
         /\ rowsBefore = d.rows
    /\ autosaveStatus = ""
    /\ saveTimer = 0
    /\ pending = {}
    /\ ls = AbsentEntry
    /\ cookie = AbsentCookie
    /\ lsFull = FALSE
    /\ stateData = NullValue
    /\ cookieRead = FALSE
    /\ loadThrew = FALSE
    /\ cleared = FALSE
    /\ lastOp = "parse"
    /\ nEvents = 0
    /\ EnginesIdle

\* calculateExpenses() on the page as it is.
CalculateExpenses ==
    /\ ~expenses.computed
    /\ expenses' = [ computed |-> TRUE, totals |-> calculateExpenses(dom) ]
    /\ lastOp' = "calculateExpenses"
    /\ UNCHANGED << phase, dom, autosaveStatus, saveTimer, pending, ls, cookie,
                    lsFull, savedDom, rowsBefore, stateData, cookieRead,
                    loadThrew, cleared, nEvents, taxVars, income >>

\* 'change' on a travel checkbox: toggleTravelSections, whose recalculate
\* runs calculateIncome and calculateExpenses again and queues a save.
SwitchTravelCheckbox ==
    /\ expenses.computed
    /\ \E id \in TravelCheckboxes :
         \E d \in { [ dom EXCEPT !.checked[id] = ~dom.checked[id] ] } :
            /\ dom' = d
            /\ income' = [ computed |-> TRUE, result |-> calculateIncome(d) ]
            /\ expenses' = [ computed |-> TRUE, totals |-> calculateExpenses(d) ]
    /\ \E ts \in { queueSave(TimerState) } : SetTimers(ts)
    /\ autosaveStatus' = "Saving"
    /\ lastOp' = "toggleTravelSections"
    /\ UNCHANGED << phase, ls, cookie,
                    lsFull, savedDom, rowsBefore, stateData, cookieRead,
                    loadThrew, cleared, nEvents, taxVars >>

NextExpenses ==
    \/ CalculateExpenses
    \/ SwitchTravelCheckbox

SpecExpenses == InitExpenses /\ [][NextExpenses]_vars

----------------------------------------------------------------------------
(* calculateFederalTax applied to incomes at and around every threshold *)

Near == 2       \* half dollars on each side of 0 and of a threshold

ThresholdSet(status) ==
    { Thresholds(status)[k] : k \in 1..Len(Thresholds(status)) }

TaxIncomes(status) ==
    { Plus(Whole(u), Halves(d)) :
        u \in ThresholdSet(status) \cup {0}, d \in (0 - Near)..Near }

InitTax ==
    /\ PageInit(AbsentEntry, AbsentCookie)
    /\ lsFull = FALSE
    /\ taxStatus \in FilingStatuses
    /\ taxableIncome \in TaxIncomes(taxStatus)
    /\ federalTax = [ computed |-> FALSE, tax |-> Zero ]
    /\ expenses = [ computed |-> FALSE, totals |-> NothingSpent ]
    /\ income = [ computed |-> FALSE, result |-> NothingEarned ]

\* calculateFederalTax(taxableIncome, status)
CalculateFederalTax ==
    /\ ~federalTax.computed
    /\ federalTax' = [ computed |-> TRUE,
                       tax |-> calculateFederalTax(taxableIncome, taxStatus) ]
    /\ UNCHANGED << pageVars, taxStatus, taxableIncome, expenses, income >>

\* The taxable income changes and calculateFederalTax runs again.
ChangeIncome ==
    /\ federalTax.computed
    /\ \E x \in TaxIncomes(taxStatus) \ {taxableIncome} :
         /\ taxableIncome' = x
         /\ federalTax' = [ computed |-> TRUE,
                            tax |-> calculateFederalTax(x, taxStatus) ]
    /\ UNCHANGED << pageVars, taxStatus, expenses, income >>

NextTax ==
    \/ CalculateFederalTax
    \/ ChangeIncome

SpecTax == InitTax /\ [][NextTax]_vars

----------------------------------------------------------------------------
(* calculateIncome applied to pages in both modes, with salaries below, at
   and above the Social Security wage base, in two states and under two
   filing statuses *)

SalaryTexts ==
    { <<>>,
      <<"5", "0", ",", "0", "0", "0", ".", "0", "0">>,
      <<"1", "7", "6", ",", "0", "9", "9", ".", "9", "9">>,
      <<"1", "7", "6", ",", "1", "0", "0", ".", "0", "0">>,
      <<"1", "7", "6", ",", "1", "0", "0", ".", "0", "1">>,
      <<"2", "5", "0", ",", "0", "0", "0", ".", "0", "0">>,
      <<"-", "5">> }

WageTexts == { <<"2", "0", ".", "2", "5">>, <<"1", "0", "0", ".", "0", "0">> }

FORTY == <<"4", "0">>

OvertimeTexts == { <<>>, <<"7", ".", "5">> }

MultiplierTexts == { <<>>, <<"1", ".", "7", "5">> }

StateTexts ==
    { <<"C", "a", "l", "i", "f", "o", "r", "n", "i", "a">>, <<"T", "e", "x", "a", "s">> }

StatusTexts == { <<"s", "i", "n", "g", "l", "e">>, MARRIED }

IncomePages ==
    { [ DefaultDom EXCEPT
          !.checked["salaryRadio"] = bySalary,
          !.checked["hourlyRadio"] = ~bySalary,
          !.value["annualSalary"] = salary,
          !.value["hourlyWage"] = wage,
          !.value["hoursPerWeek"] = FORTY,
          !.value["overtimeHours"] = overtime,
          !.value["overtimeMultiplier"] = multiplier,
          !.value["stateSelect"] = state,
          !.value["filingStatus"] = status ] :
        bySalary \in BOOLEAN, salary \in SalaryTexts, wage \in WageTexts,
        overtime \in OvertimeTexts, multiplier \in MultiplierTexts,
        state \in StateTexts, status \in StatusTexts }

InitIncome ==
    /\ \E d \in IncomePages :
         /\ phase = "ready"
         /\ dom = d
         /\ rowsBefore = d.rows
    /\ savedDom = DefaultDom
    /\ autosaveStatus = ""
    /\ saveTimer = 0
    /\ pending = {}
    /\ ls = AbsentEntry
    /\ cookie = AbsentCookie
    /\ lsFull = FALSE
    /\ stateData = NullValue
    /\ cookieRead = FALSE
    /\ loadThrew = FALSE
    /\ cleared = FALSE
    /\ lastOp = "parse"
    /\ nEvents = 0
    /\ taxStatus = "single"
    /\ taxableIncome = Zero
    /\ federalTax = [ computed |-> FALSE, tax |-> Zero ]
    /\ expenses = [ computed |-> FALSE, totals |-> NothingSpent ]
    /\ income = [ computed |-> FALSE, result |-> NothingEarned ]

\* calculateIncome() on the page as it is.
CalculateIncome ==
    /\ ~income.computed
    /\ income' = [ computed |-> TRUE, result |-> calculateIncome(dom) ]
    /\ lastOp' = "calculateIncome"
    /\ UNCHANGED << phase, dom, autosaveStatus, saveTimer, pending, ls, cookie,
                    lsFull, savedDom, rowsBefore, stateData, cookieRead,
                    loadThrew, cleared, nEvents, taxVars, expenses >>

\* 'change' on the income radio that becomes checked: toggleIncomeInputs,
\* whose recalculate runs calculateIncome and calculateExpenses again and
\* queues a save.
SwitchIncomeMode ==
    /\ income.computed
    /\ \E d \in { [ dom EXCEPT !.checked["salaryRadio"] = ~dom.checked["salaryRadio"],
                               !.checked["hourlyRadio"] = dom.checked["salaryRadio"] ] } :
         /\ dom' = d
         /\ income' = [ computed |-> TRUE, result |-> calculateIncome(d) ]
         /\ expenses' = [ computed |-> TRUE, totals |-> calculateExpenses(d) ]
    /\ \E ts \in { queueSave(TimerState) } : SetTimers(ts)
    /\ autosaveStatus' = "Saving"
    /\ lastOp' = "toggleIncomeInputs"
    /\ UNCHANGED << phase, ls, cookie,
                    lsFull, savedDom, rowsBefore, stateData, cookieRead,
                    loadThrew, cleared, nEvents, taxVars >>

NextIncome ==
    \/ CalculateIncome
    \/ SwitchIncomeMode

SpecIncome == InitIncome /\ [][NextIncome]_vars

----------------------------------------------------------------------------
(* The debounced save: C1, C7 *)

\* The primary store holds the serialization of the page as it is now.
StoreIsCurrent == ls = JSONstringify(Snapshot(dom))

\* C1: the debounced save is last-write-wins and live.  Unless the store
\* refuses writes, (a) on a ready page with no save pending the primary
\* store holds the serialization of the fields as they are now, so every
\* change is followed by a save and no earlier state is left written, and
\* (b) from every state the page comes to rest with no timer pending and
\* the store holding the serialization of the fields after the last change.
C1_DebouncedSaveLastWriteWins ==
    ~lsFull =>
        /\ [](phase = "ready" /\ pending = {} => StoreIsCurrent)
        /\ [](phase = "ready" =>
                <>(phase = "ready" /\ pending = {} /\ StoreIsCurrent))

\* C1 witness: after several changes one save has run and the store holds
\* the changed page.
C1_Witness ==
    /\ lastOp = "saveState" /\ phase = "ready" /\ pending = {}
    /\ nEvents >= 2 /\ dom # DefaultDom /\ StoreIsCurrent

\* C7: at most one save timer is pending, and it is the one saveTimer
\* holds (the timer of the last trigger); once it has fired no timer is
\* pending, so a burst of triggers ends in exactly one saveState run.
C7_AtMostOnePendingTimer ==
    /\ Cardinality(pending) <= 1
    /\ pending \subseteq {saveTimer}
    /\ lastOp = "saveState" => pending = {}

\* C7 witness: two user triggers on top of the start-up ones, nothing saved
\* in between, and a single timer pending.
C7_Witness ==
    /\ nEvents >= 2 /\ phase = "ready" /\ ls.kind = "absent" /\ ~lsFull
    /\ Cardinality(pending) = 1

----------------------------------------------------------------------------
(* saveState's two writes: C6 *)

\* C6: the two writes of saveState are independent: after saveState each
\* store whose own write can succeed holds the new document (the primary
\* store unless setItem throws, the cookie unless btoa throws).
C6_WritesAreIndependent ==
    lastOp = "saveState" =>
        /\ ~lsFull => StoreIsCurrent
        /\ ~BtoaThrows(dom) =>
              cookie = [ kind |-> "b64", text |-> JSONstringify(Snapshot(dom)) ]

----------------------------------------------------------------------------
(* clearSavedState: C3 *)

\* C3: when the page reloaded by clearSavedState is about to run loadState,
\* neither store holds a saved document.
C3_ClearedWhenReloaded ==
    phase = "loading" /\ cleared =>
        ls.kind = "absent" /\ cookie.kind = "absent"

----------------------------------------------------------------------------
(* Save, then load on a fresh page: C2 *)

\* The page d with every data-format value in the form formatInputValue
\* gives it; a row's empty value counts as '0'.
CanonicalRows(rs) ==
    [ i \in 1..Len(rs) |->
        [ label |-> rs[i].label,
          value |-> formatInputValue(OrElse(rs[i].value, <<"0">>)) ] ]

Canonical(d) ==
    [ checked    |-> d.checked,
      value      |-> [ id \in ValueIds |->
                         IF id \in FormatIds THEN formatInputValue(d.value[id])
                         ELSE d.value[id] ],
      rows       |-> [ c \in Containers |-> CanonicalRows(d.rows[c]) ],
      themeLight |-> d.themeLight ]

\* C2 as stated: the page loadState restores from a document saveState wrote
\* is the page that was saved: every field value, flag, the theme and every
\* category's rows, labels and values in their order, are equal.
C2_RoundTripExact ==
    lastOp = "DOMContentLoaded" /\ Truthy(stateData) => dom = savedDom

\* C2 amended: the page loadState restores from a document saveState wrote
\* is the saved page in canonical form: flags, select values, the theme, the
\* labels and the order of the rows are the saved ones, and each data-format
\* value is the saved text as formatInputValue renders it (an empty row value
\* as that of '0').  A saved page already in canonical form is restored
\* exactly.
C2_RoundTripCanonical ==
    lastOp = "DOMContentLoaded" /\ Truthy(stateData) =>
        /\ ~loadThrew
        /\ stateData = Snapshot(savedDom)
        /\ dom = Canonical(savedDom)
        /\ \A c \in Containers :
              /\ Len(dom.rows[c]) = Len(savedDom.rows[c])
              /\ \A i \in 1..Len(savedDom.rows[c]) :
                    dom.rows[c][i].label = savedDom.rows[c][i].label
        /\ (savedDom = Canonical(savedDom) => dom = savedDom)

\* C2 witness: a page with two different rows under housingExtras, the
\* typed one first, and a typed, unformatted salary was saved and has been
\* restored on a fresh page, the rows in the saved order; the label with a
\* lone surrogate did not keep the cookie from being written.
C2_Witness ==
    /\ lastOp = "DOMContentLoaded" /\ Truthy(stateData)
    /\ savedDom.rows["housingExtras"] = << RowTyped, RowX >>
    /\ savedDom.value["annualSalary"] = <<"5">>
    /\ dom.value["annualSalary"] = <<"5", ".", "0", "0">>
    /\ dom.rows["housingExtras"] =
          << [ label |-> <<"b">>, value |-> <<"5", ".", "0", "0">> ], RowX >>
    /\ dom.rows["additionalExpenses"] = << RowLone >>
    /\ cookie.kind = "b64"

----------------------------------------------------------------------------
(* loadState's choice of source: C4, C5 *)

PrimaryParses == ls.kind = "json"

CookieParses == cookie.kind = "b64" /\ cookie.text.kind = "json"

\* The entry parses to a value `if (!stateData)` lets through.
PrimaryUsable == PrimaryParses /\ Truthy(ls.parsed)

CookieUsable == CookieParses /\ Truthy(cookie.text.parsed)

\* C4 as stated: a parseable primary entry is the document restored and the
\* cookie is not consulted; with the primary entry absent or unparseable a
\* cookie that decodes and parses is the document restored; with both absent
\* or corrupt nothing is restored and the fields keep their defaults.
C4_SourceSelectionAsStated ==
    lastOp = "DOMContentLoaded" =>
        /\ PrimaryParses => stateData = ls.parsed /\ ~cookieRead
        /\ ~PrimaryParses /\ CookieParses => stateData = cookie.text.parsed
        /\ ~PrimaryParses /\ ~CookieParses =>
              stateData = NullValue /\ dom = DefaultDom

\* C4 amended: a primary entry that parses to a truthy value (not null,
\* false, 0 or "") is the document loadState restores, and the cookie is not
\* consulted; otherwise (entry absent, empty, unparseable or falsy) the
\* cookie is consulted, and a cookie that decodes and parses to a truthy
\* value is the document restored; when neither gives one, nothing is
\* restored and every field keeps its default.  The page restored from a
\* saved page is that page (in canonical form), and the one restored from
\* a document written elsewhere is what its entries give, taken in order.
C4_SourceSelection ==
    lastOp = "DOMContentLoaded" =>
        /\ PrimaryUsable => stateData = ls.parsed /\ ~cookieRead
        /\ ~PrimaryUsable => cookieRead
        /\ ~PrimaryUsable /\ CookieUsable => stateData = cookie.text.parsed
        /\ ~PrimaryUsable /\ ~CookieUsable =>
              stateData = NullValue /\ dom = DefaultDom /\ ~loadThrew
        /\ \A p \in {SomePage, OtherPage} :
              stateData = Snapshot(p) => dom = Canonical(p)
        /\ stateData = ForeignDoc => dom = ForeignPage

\* C4 witness: the primary entry is not JSON and the page was restored from
\* the cookie's document.
C4_Witness ==
    /\ lastOp = "DOMContentLoaded"
    /\ ls.kind = "notjson" /\ cookieRead
    /\ cookie.text = JSONstringify(Snapshot(OtherPage))
    /\ stateData = Snapshot(OtherPage)
    /\ dom = Canonical(OtherPage) /\ dom # DefaultDom

\* C5: loadState never throws, whatever the primary entry and the cookie
\* hold.
C5_LoadStateNeverThrows == lastOp = "DOMContentLoaded" => ~loadThrew

----------------------------------------------------------------------------
(* restoreCustomItems: C8 *)

\* The list saved for category c in the document at hand (none: empty).
SavedList(c) ==
    IF stateData.custom.kind = "map" THEN stateData.custom.cats[c].items
    ELSE <<>>

\* Category c of the document is one restoreCustomItems throws at: a truthy
\* value that is not a list, or a list with a null among its items.
Malformed(c) ==
    /\ stateData.custom.kind = "map"
    /\ \/ stateData.custom.cats[c].kind = "other"
       \/ \E i \in 1..Len(SavedList(c)) : SavedList(c)[i].kind = "null"

\* The place in CUSTOM_CONTAINERS of the first such category; one past the
\* last place when there is none.
FirstMalformed ==
    CHOOSE k \in 1..(Len(CUSTOM_CONTAINERS) + 1) :
        /\ k > Len(CUSTOM_CONTAINERS) \/ Malformed(CUSTOM_CONTAINERS[k])
        /\ \A j \in 1..(k - 1) : ~Malformed(CUSTOM_CONTAINERS[j])

\* The items of category c that come before its first null item (all of
\* them when none is null).
BeforeNull(c) ==
    SubSeq(SavedList(c), 1,
           CHOOSE n \in 0..Len(SavedList(c)) :
              /\ n = Len(SavedList(c)) \/ SavedList(c)[n + 1].kind = "null"
              /\ \A i \in 1..n : SavedList(c)[i].kind # "null")

\* One row per item, in the items' order: the item's label, and the item's
\* value (an empty one as '0') as formatInputValue renders it, both
\* without the line breaks a text input does not take.
RowsOf(items) ==
    [ i \in 1..Len(items) |->
        [ label |-> Sanitized(items[i].label),
          value |-> formatInputValue(
                        Sanitized(OrElse(items[i].value, <<"0">>))) ] ]

\* C8 as stated: after restoreCustomItems, whatever rows the page held
\* before, the rows of each category are exactly the saved list of that
\* category, labels and values, in saved order, and a category the document
\* does not have ends with no rows.
C8_RestoreIsExactlySavedList ==
    lastOp = "restoreCustomItems" =>
        \A c \in Containers :
            /\ Len(dom.rows[c]) = Len(SavedList(c))
            /\ \A i \in 1..Len(SavedList(c)) :
                  /\ dom.rows[c][i].label = SavedList(c)[i].label
                  /\ dom.rows[c][i].value = SavedList(c)[i].value
            /\ (stateData.custom.kind # "map"
                  \/ stateData.custom.cats[c].kind = "absent")
                 => dom.rows[c] = <<>>

\* C8 amended: restoring rebuilds, it never merges.  Whatever rows the page
\* held before, every container restoreCustomItems gets to ends with one
\* row per saved item and no other, in saved order, with the item's label
\* and the item's value (an empty one as '0') as formatInputValue renders
\* it, line breaks dropped as a text input drops them, and with no rows
\* when the document does not have the category.  It
\* gets to all seven unless a category is a truthy non-list or lists a null
\* item: at the first such category, in the order of CUSTOM_CONTAINERS, it
\* throws, that container holding the rows of the items before the null
\* one and none of its earlier rows, and the containers after it are left
\* as they were.
C8_RestoreIsFullRebuild ==
    lastOp = "restoreCustomItems" =>
        /\ loadThrew <=> FirstMalformed <= Len(CUSTOM_CONTAINERS)
        /\ \A k \in 1..Len(CUSTOM_CONTAINERS) :
              /\ k < FirstMalformed =>
                    /\ dom.rows[CUSTOM_CONTAINERS[k]]
                          = RowsOf(SavedList(CUSTOM_CONTAINERS[k]))
                    /\ (stateData.custom.kind # "map"
                          \/ stateData.custom.cats[CUSTOM_CONTAINERS[k]].kind
                               = "absent")
                         => dom.rows[CUSTOM_CONTAINERS[k]] = <<>>
              /\ k = FirstMalformed =>
                    dom.rows[CUSTOM_CONTAINERS[k]]
                      = RowsOf(BeforeNull(CUSTOM_CONTAINERS[k]))
              /\ k > FirstMalformed =>
                    dom.rows[CUSTOM_CONTAINERS[k]]
                      = rowsBefore[CUSTOM_CONTAINERS[k]]

\* C8 witness: a page with two rows under housingExtras and one under
\* vehicleExtras was rebuilt from a document that lists two other items, in
\* another order, under housingExtras and has no vehicleExtras.
C8_Witness ==
    /\ lastOp = "restoreCustomItems" /\ ~loadThrew
    /\ rowsBefore["housingExtras"] = << RowX, RowY >>
    /\ rowsBefore["vehicleExtras"] = << RowY >>
    /\ SavedList("housingExtras") = << ItemB, ItemA >>
    /\ dom.rows["housingExtras"] =
          << RowY, [ label |-> <<"a">>, value |-> <<"5", ".", "0", "0">> ] >>
    /\ dom.rows["vehicleExtras"] = <<>>

----------------------------------------------------------------------------
(* Gating of the travel sub-categories: C9 *)

\* The rows rs with every value 0.
ZeroRows(rs) == [ i \in 1..Len(rs) |-> [ rs[i] EXCEPT !.value = <<"0">> ] ]

SubTotalOf(box) ==
    CASE box = "vehicleCheckbox"         -> "vehicleTotal"
      [] box = "publicTransportCheckbox" -> "publicTotal"
      [] box = "rideShareCheckbox"       -> "rideShareTotal"
      [] box = "miscTravelCheckbox"      -> "miscTravelTotal"

ExtrasOf(box) ==
    CASE box = "vehicleCheckbox"         -> "vehicleExtras"
      [] box = "publicTransportCheckbox" -> "publicTransportExtras"
      [] box = "rideShareCheckbox"       -> "rideShareExtras"
      [] box = "miscTravelCheckbox"      -> "miscTravelExtras"

\* The page d with every stored value of the sub-category of box set to 0,
\* and its checkbox set to isChecked.
ZeroedSub(d, box, isChecked) ==
    [ d EXCEPT
        !.checked[box] = isChecked,
        !.value = [ id \in ValueIds |->
                      IF box = "vehicleCheckbox"
                           /\ id \in {"vehiclePayment", "fuelCosts",
                                      "autoInsuranceAmount"}
                      THEN <<"0">> ELSE d.value[id] ],
        !.rows[ExtrasOf(box)] = ZeroRows(d.rows[ExtrasOf(box)]) ]

\* C9: gating.  For each travel sub-category whose checkbox is unchecked,
\* the sub-total calculateExpenses returns is 0, and the travel total and
\* the grand total are those of the page with all stored values of that
\* sub-category at 0 (its checkbox checked or not).
C9_UncheckedContributesNothing ==
    expenses.computed =>
        \A box \in TravelCheckboxes :
            ~dom.checked[box] =>
                /\ expenses.totals[SubTotalOf(box)] = Zero
                /\ \A isChecked \in BOOLEAN :
                     /\ Same(expenses.totals.travelTotal,
                             calculateExpenses(ZeroedSub(dom, box, isChecked)).travelTotal)
                     /\ Same(expenses.totals.total,
                             calculateExpenses(ZeroedSub(dom, box, isChecked)).total)

\* C9 witness: the vehicle sub-category is switched off while it stores a
\* payment, an insurance amount and a custom item, and another sub-category
\* that is on contributes to the travel total.
C9_Witness ==
    /\ expenses.computed
    /\ ~dom.checked["vehicleCheckbox"]
    /\ dom.value["vehiclePayment"] = AMOUNT
    /\ dom.value["autoInsuranceAmount"] = YEARLY
    /\ Len(dom.rows["vehicleExtras"]) = 1
    /\ dom.checked["publicTransportCheckbox"]
    /\ Len(dom.rows["publicTransportExtras"]) = 1
    /\ expenses.totals.vehicleTotal = Zero
    /\ Less(Zero, expenses.totals.travelTotal)

----------------------------------------------------------------------------
(* calculateFederalTax: C10 *)

\* The tax on an income equal to threshold k: the sum of
\* (upper - lower) * rate over brackets 1..k.
RECURSIVE BracketSum(_, _)
BracketSum(status, k) ==
    IF k = 0 THEN Zero
    ELSE Plus(BracketSum(status, k - 1),
              Times(Whole(Thresholds(status)[k]
                            - (IF k = 1 THEN 0 ELSE Thresholds(status)[k - 1])),
                    Rate(status, k)))

TopRate(status) == Rate(status, Len(Rates(status)))

\* What the rounding of the seven sums and products of a tax can add to the
\* difference of two taxes: far less than one hundredth of a cent (a tax
\* below a million is rounded to a multiple of 2^-34 or finer).
RoundingSlack == TenThousandths(1)

\* C10: calculateFederalTax(0, status) is 0 for every status; the tax does
\* not decrease when the income grows, and between two incomes it grows by
\* at most the top rate times their distance, up to the rounding of the
\* operations (no jump); at an income equal to threshold k it is the sum of
\* (upper - lower) * rate over brackets 1..k, each product and each sum
\* rounded as the loop rounds it, and just above the threshold it is that
\* sum plus the next rate times the excess.
C10_ZeroMonotoneContinuous ==
    /\ [](federalTax.computed =>
            /\ LessEq(taxableIncome, Zero) => federalTax.tax = Zero
            /\ \A k \in 1..Len(Thresholds(taxStatus)) :
                 \A d \in 0..Near :
                    Same(taxableIncome,
                         Plus(Whole(Thresholds(taxStatus)[k]), Halves(d))) =>
                       Same(federalTax.tax,
                            Plus(BracketSum(taxStatus, k),
                                 Times(Halves(d), Rate(taxStatus, k + 1)))))
    /\ [][ federalTax.computed /\ federalTax'.computed
             /\ LessEq(taxableIncome, taxableIncome')
           => /\ LessEq(federalTax.tax, federalTax'.tax)
              /\ LessEq(Minus(federalTax'.tax, federalTax.tax),
                        Plus(Times(TopRate(taxStatus),
                                   Minus(taxableIncome', taxableIncome)),
                             RoundingSlack)) ]_vars

\* C10 witness: the tax was computed for an income equal to the second
\* threshold of a status, where two brackets add up.
C10_Witness ==
    /\ federalTax.computed
    /\ taxStatus = "married"
    /\ taxableIncome = Whole(Thresholds("married")[2])
    /\ Same(federalTax.tax, BracketSum("married", 2))
    /\ Less(Zero, federalTax.tax)

----------------------------------------------------------------------------
(* The Social Security wage base: C11 *)

\* C11: Social Security tax is capped at the wage base.  Whatever the mode
\* (salary or hourly), the state and the filing status, calculateIncome
\* returns socialSecurityTax = 176100 * 0.062 = 10918.20 for a gross annual
\* income of 176100 or more (the product, rounded as the program rounds it,
\* is the number written 10918.2), and gross * 0.062, the rounded product,
\* for a gross below the base.
C11_SocialSecurityCapped ==
    income.computed =>
        /\ LessEq(Whole(176100), income.result.grossAnnual) =>
              Same(income.result.taxes.socialSecurityTax, TenThousandths(109182000))
        /\ Less(income.result.grossAnnual, Whole(176100)) =>
              Same(income.result.taxes.socialSecurityTax,
                   Times(income.result.grossAnnual, SOCIAL_SECURITY_RATE))

\* C11 witness: in hourly mode, in a state with an income tax and for a
\* married filer, a gross above the base pays the capped tax.
C11_Witness ==
    /\ income.computed
    /\ ~dom.checked["salaryRadio"]
    /\ dom.value["filingStatus"] = MARRIED
    /\ Less(Zero, income.result.taxes.stateTax)
    /\ Less(Whole(176100), income.result.grossAnnual)
    /\ Same(income.result.taxes.socialSecurityTax, TenThousandths(109182000))

----------------------------------------------------------------------------
(* Page start and the saves it queues: C12 *)

\* C12: the saves queued during page start run only after the
\* DOMContentLoaded handler has finished, so that no saveState writes
\* default or partially restored fields before loadState has read the
\* stores and completed the restore: no timer is pending on a page whose
\* handler has not run, and whenever saveState has run, the loadState of
\* that page had completed.
C12_NoSaveBeforeRestoreCompletes ==
    /\ phase = "loading" => pending = {}
    /\ lastOp = "saveState" => ~loadThrew

====
